---- MODULE Spec2Model ----
(***************************************************************************)
(* Model of the cxmod support dashboard: the ticket hook (useTickets) over *)
(* the Supabase table "Active Issues", the feedback hook (useFeedback)     *)
(* over "feedback_requests", the Notion adapter (ticketService), the       *)
(* settings provider, and the pure helpers they share (tag codec, numeric  *)
(* test, identifier hash).                                                 *)
(*                                                                         *)
(* Representation.  A JavaScript string is a sequence of one-character     *)
(* strings (<<"a","b">> is 'ab').  A nullable stored text value is a       *)
(* tagged record [k, v]: Null, Str(s), or Arr(items) for a legacy column   *)
(* value that is already an array.  Instants are positive integers counted *)
(* in ticks, TicksPerDay ticks to a calendar day; a date (the part of an   *)
(* ISO timestamp before 'T') is the day number; NoDate stands for null.    *)
(***************************************************************************)
EXTENDS Integers, Sequences, FiniteSets, TLC

----------------------------------------------------------------------------
(* Bounds *)

\* Longest legacy column text, longest tag, most tags in a list, longest
\* hashed identifier.
MaxLen == 3
MaxTagLen == 1
MaxTags == 2
MaxHashLen == 6
\* Longest identifier made of digits and a decimal point.
MaxDecimalLen == 3
\* Most calls a user makes on the ticket hook after it mounted.
MaxCalls == 2
\* Most calls with a partial updates object, on each hook.
MaxPartialCalls == 1
\* Most calls a user makes while the mount effect's fetch may be in flight.
MaxLoadingCalls == 2
\* Most saves each form makes.
MaxSaves == 2
\* Calls the user makes from the search tab
MaxGalleryCalls == 2
\* Calls the user makes while using the bulk actions
MaxBulkCalls == 2

----------------------------------------------------------------------------
(* Strings *)

Null == [k |-> "null", v |-> <<>>]
Str(s) == [k |-> "str", v |-> s]
Arr(items) == [k |-> "arr", v |-> items]
Num(s) == [k |-> "num", v |-> s]
Lit(s) == [k |-> "lit", v |-> s]
Obj(items) == [k |-> "obj", v |-> items]

Digits == {"0", "1", "2", "3", "4", "5", "6", "7", "8", "9"}
\* Characters a string of this notation cannot hold, named by their code.
Backspace == "U+0008"
VerticalTab == "U+000B"
NoBreakSpace == "U+00A0"
ByteOrderMark == "U+FEFF"
\* The space separators and line terminators beyond U+00FF.
UnicodeSpaces ==
  {"U+1680", "U+2000", "U+2001", "U+2002", "U+2003", "U+2004", "U+2005", "U+2006",
   "U+2007", "U+2008", "U+2009", "U+200A", "U+2028", "U+2029", "U+202F", "U+205F",
   "U+3000"}
\* The white space and line terminators String.prototype.trim removes.
WhiteSpace ==
  {" ", "\t", "\n", "\r", VerticalTab, "\f", NoBreakSpace, ByteOrderMark}
  \cup UnicodeSpaces

RECURSIVE SeqsUpTo(_, _)
SeqsUpTo(S, n) ==
  IF n = 0 THEN {<<>>}
  ELSE LET shorter == SeqsUpTo(S, n - 1)
       IN  shorter \cup {Append(s, c) : s \in shorter, c \in S}

RECURSIVE TrimStart(_)
TrimStart(s) ==
  IF s # <<>> /\ Head(s) \in WhiteSpace THEN TrimStart(Tail(s)) ELSE s

RECURSIVE TrimEnd(_)
TrimEnd(s) ==
  IF s # <<>> /\ s[Len(s)] \in WhiteSpace
  THEN TrimEnd(SubSeq(s, 1, Len(s) - 1)) ELSE s

Trim(s) == TrimEnd(TrimStart(s))

IsBlank(s) == Trim(s) = <<>>

SelectSeqBy(s, Test(_)) == SelectSeq(s, Test)

Includes(arr, x) == \E i \in 1..Len(arr) : arr[i] = x

----------------------------------------------------------------------------
(* Characters *)

Quote == "\""
Backslash == "\\"
\* Every character the table below does not hold: they are not told apart.
OtherChar == "U+FFFD"

LowerLetters == <<"a", "b", "c", "d", "e", "f", "g", "h", "i", "j", "k", "l", "m",
                  "n", "o", "p", "q", "r", "s", "t", "u", "v", "w", "x", "y", "z">>
UpperLetters == <<"A", "B", "C", "D", "E", "F", "G", "H", "I", "J", "K", "L", "M",
                  "N", "O", "P", "Q", "R", "S", "T", "U", "V", "W", "X", "Y", "Z">>
DigitChars == <<"0", "1", "2", "3", "4", "5", "6", "7", "8", "9">>

IndexIn(seq, c) == CHOOSE i \in 1..Len(seq) : seq[i] = c
IsIn(seq, c) == \E i \in 1..Len(seq) : seq[i] = c

\* String.prototype.charCodeAt(0) of a one-character string.
CharCode(c) ==
  IF IsIn(LowerLetters, c) THEN 96 + IndexIn(LowerLetters, c)
  ELSE IF IsIn(UpperLetters, c) THEN 64 + IndexIn(UpperLetters, c)
  ELSE IF IsIn(DigitChars, c) THEN 47 + IndexIn(DigitChars, c)
  ELSE CASE c = " " -> 32 [] c = "\t" -> 9 [] c = "\n" -> 10 [] c = "\r" -> 13
         [] c = Backspace -> 8 [] c = VerticalTab -> 11 [] c = "\f" -> 12
         [] c = Quote -> 34 [] c = "%" -> 37 [] c = "+" -> 43 [] c = "," -> 44
         [] c = "-" -> 45 [] c = "." -> 46 [] c = "/" -> 47 [] c = ":" -> 58
         [] c = "[" -> 91 [] c = Backslash -> 92 [] c = "]" -> 93 [] c = "_" -> 95
         [] c = "{" -> 123 [] c = "}" -> 125 [] c = "(" -> 40 [] c = ")" -> 41
         [] c = "*" -> 42
         [] c = NoBreakSpace -> 160 [] c = ByteOrderMark -> 65279
         [] c = "U+1680" -> 5760 [] c = "U+2000" -> 8192 [] c = "U+2001" -> 8193
         [] c = "U+2002" -> 8194 [] c = "U+2003" -> 8195 [] c = "U+2004" -> 8196
         [] c = "U+2005" -> 8197 [] c = "U+2006" -> 8198 [] c = "U+2007" -> 8199
         [] c = "U+2008" -> 8200 [] c = "U+2009" -> 8201 [] c = "U+200A" -> 8202
         [] c = "U+2028" -> 8232 [] c = "U+2029" -> 8233 [] c = "U+202F" -> 8239
         [] c = "U+205F" -> 8287 [] c = "U+3000" -> 12288

\* String.fromCharCode(n), for the characters of the table.
TableChars ==
  {LowerLetters[i] : i \in 1..Len(LowerLetters)} \cup
  {UpperLetters[i] : i \in 1..Len(UpperLetters)} \cup
  {DigitChars[i] : i \in 1..Len(DigitChars)} \cup
  {" ", "\t", "\n", "\r", Backspace, VerticalTab, "\f", Quote, "%", "+", ",", "-",
   ".", "/", ":", "[", Backslash, "]", "_", "{", "}", "(", ")", "*",
   NoBreakSpace, ByteOrderMark} \cup UnicodeSpaces
FromCharCode(n) ==
  IF \E c \in TableChars : CharCode(c) = n
  THEN CHOOSE c \in TableChars : CharCode(c) = n
  ELSE OtherChar

LowerChar(c) ==
  IF IsIn(UpperLetters, c) THEN LowerLetters[IndexIn(UpperLetters, c)] ELSE c

\* String.prototype.toLowerCase
ToLowerCase(s) == [i \in 1..Len(s) |-> LowerChar(s[i])]

DigitVal(c) ==
  IF IsIn(DigitChars, c) THEN IndexIn(DigitChars, c) - 1
  ELSE IF IsIn(LowerLetters, c) THEN 9 + IndexIn(LowerLetters, c)
  ELSE 9 + IndexIn(UpperLetters, c)

IsDigitOfRadix(c, radix) ==
  (IsIn(DigitChars, c) \/ IsIn(LowerLetters, c) \/ IsIn(UpperLetters, c))
  /\ DigitVal(c) < radix

RECURSIVE SkipRadixDigits(_, _, _)
SkipRadixDigits(s, i, radix) ==
  IF i <= Len(s) /\ IsDigitOfRadix(s[i], radix)
  THEN SkipRadixDigits(s, i + 1, radix) ELSE i

----------------------------------------------------------------------------
(* JSON.stringify / JSON.parse, on the characters of JsonChars *)

\* A variant of EscapeChar that escapes nothing: a tag holding a quote or a
\* backslash is then stored as text that is not the JSON of the tag list.
EscapeCharNothing(c) == <<c>>

\* JSON.stringify's escape of one character of a string.
EscapeChar(c) ==
  CASE c = Quote     -> <<Backslash, Quote>>
    [] c = Backslash -> <<Backslash, Backslash>>
    [] c = "\n"      -> <<Backslash, "n">>
    [] c = "\t"      -> <<Backslash, "t">>
    [] c = "\r"      -> <<Backslash, "r">>
    [] c = Backspace -> <<Backslash, "b">>
    [] c = "\f"      -> <<Backslash, "f">>
    [] c = VerticalTab -> <<Backslash, "u", "0", "0", "0", "b">>
    [] OTHER         -> <<c>>

RECURSIVE EscapeString(_)
EscapeString(s) ==
  IF s = <<>> THEN <<>> ELSE EscapeChar(Head(s)) \o EscapeString(Tail(s))

QuoteString(s) == <<Quote>> \o EscapeString(s) \o <<Quote>>

RECURSIVE JoinQuoted(_)
JoinQuoted(array) ==
  IF array = <<>> THEN <<>>
  ELSE IF Len(array) = 1 THEN QuoteString(array[1])
  ELSE QuoteString(Head(array)) \o <<",">> \o JoinQuoted(Tail(array))

\* JSON.stringify of an array of strings.
JsonStringify(array) == <<"[">> \o JoinQuoted(array) \o <<"]">>

JsonWhiteSpace == {" ", "\t", "\n", "\r"}

Fail == [ok |-> FALSE, val |-> Null, next |-> 0]
Ok(val, next) == [ok |-> TRUE, val |-> val, next |-> next]

RECURSIVE SkipWs(_, _)
SkipWs(s, i) ==
  IF i <= Len(s) /\ s[i] \in JsonWhiteSpace THEN SkipWs(s, i + 1) ELSE i

RECURSIVE SkipDigits(_, _)
SkipDigits(s, i) ==
  IF i <= Len(s) /\ s[i] \in Digits THEN SkipDigits(s, i + 1) ELSE i

HasPrefixAt(s, i, w) ==
  /\ i + Len(w) - 1 <= Len(s)
  /\ SubSeq(s, i, i + Len(w) - 1) = w

\* The end of the integer part (0|[1-9][0-9]*) from s[i]; 0 when there is none.
NumberIntEnd(s, i) ==
  IF i <= Len(s) /\ s[i] = "0" THEN i + 1
  ELSE IF i <= Len(s) /\ s[i] \in Digits THEN SkipDigits(s, i)
  ELSE 0

\* The end of the optional fraction (\.[0-9]+)? from s[i]; 0 passes through.
NumberFracEnd(s, i) ==
  IF i # 0 /\ i <= Len(s) /\ s[i] = "."
  THEN IF SkipDigits(s, i + 1) > i + 1 THEN SkipDigits(s, i + 1) ELSE 0
  ELSE i

\* The end of the exponent digits from s[i], after [eE][+-]?; 0 when none.
NumberExpDigitsEnd(s, i) == IF SkipDigits(s, i) > i THEN SkipDigits(s, i) ELSE 0

\* The end of the optional exponent ([eE][+-]?[0-9]+)? from s[i]; 0 passes through.
NumberExpEnd(s, i) ==
  IF i # 0 /\ i <= Len(s) /\ s[i] \in {"e", "E"}
  THEN NumberExpDigitsEnd(s, IF i + 1 <= Len(s) /\ s[i + 1] \in {"+", "-"}
                             THEN i + 2 ELSE i + 1)
  ELSE i

NumberResult(s, i, end) == IF end = 0 THEN Fail ELSE Ok(Num(SubSeq(s, i, end - 1)), end)

\* A JSON number starting at s[i]: -?(0|[1-9][0-9]*)(\.[0-9]+)?([eE][+-]?[0-9]+)?
ParseNumber(s, i) ==
  NumberResult(s, i,
    NumberExpEnd(s, NumberFracEnd(s, NumberIntEnd(s,
      IF i <= Len(s) /\ s[i] = "-" THEN i + 1 ELSE i))))

\* The character an escape letter stands for (<<>> when it is no escape).
Unescape(c) ==
  CASE c = Quote     -> <<Quote>>
    [] c = Backslash -> <<Backslash>>
    [] c = "/"       -> <<"/">>
    [] c = "n"       -> <<"\n">>
    [] c = "t"       -> <<"\t">>
    [] c = "r"       -> <<"\r">>
    [] c = "b"       -> <<Backspace>>
    [] c = "f"       -> <<"\f">>
    [] OTHER         -> <<>>

\* \uXXXX at s[i] = "u": the four hexadecimal digits that follow.
IsUnicodeEscape(s, i) ==
  /\ s[i] = "u" /\ i + 4 <= Len(s)
  /\ \A k \in 1..4 : IsDigitOfRadix(s[i + k], 16)
UnicodeEscape(s, i) ==
  FromCharCode(((DigitVal(s[i + 1]) * 16 + DigitVal(s[i + 2])) * 16
                + DigitVal(s[i + 3])) * 16 + DigitVal(s[i + 4]))

\* The characters of a JSON string after its opening quote, from s[i].
RECURSIVE ParseStringChars(_, _, _)
ParseStringChars(s, i, acc) ==
  IF i > Len(s) THEN Fail
  ELSE IF s[i] = Quote THEN Ok(Str(acc), i + 1)
  ELSE IF s[i] = Backslash
       THEN IF i + 1 <= Len(s) /\ Unescape(s[i + 1]) # <<>>
            THEN ParseStringChars(s, i + 2, acc \o Unescape(s[i + 1]))
            ELSE IF i + 1 <= Len(s) /\ IsUnicodeEscape(s, i + 1)
            THEN ParseStringChars(s, i + 6, Append(acc, UnicodeEscape(s, i + 1)))
            ELSE Fail
  ELSE IF s[i] \in {"\n", "\t", "\r", Backspace, VerticalTab, "\f"} THEN Fail
  ELSE ParseStringChars(s, i + 1, Append(acc, s[i]))

RECURSIVE ParseValue(_, _)
RECURSIVE ParseElements(_, _, _)
RECURSIVE ParseMembers(_, _, _)

\* After "[" and white space, at s[j]: the empty array or its elements.
ParseArray(s, j) ==
  IF j <= Len(s) /\ s[j] = "]" THEN Ok(Arr(<<>>), j + 1)
  ELSE ParseElements(s, j, <<>>)

\* After "{" and white space, at s[j]: the empty object or its members.
ParseObject(s, j) ==
  IF j <= Len(s) /\ s[j] = "}" THEN Ok(Obj(<<>>), j + 1)
  ELSE ParseMembers(s, j, <<>>)

\* One JSON value starting at s[i] (no leading white space).
ParseValue(s, i) ==
  IF i > Len(s) THEN Fail
  ELSE IF s[i] = Quote THEN ParseStringChars(s, i + 1, <<>>)
  ELSE IF s[i] = "[" THEN ParseArray(s, SkipWs(s, i + 1))
  ELSE IF s[i] = "{" THEN ParseObject(s, SkipWs(s, i + 1))
  ELSE IF HasPrefixAt(s, i, <<"t", "r", "u", "e">>)
       THEN Ok(Lit(<<"t", "r", "u", "e">>), i + 4)
  ELSE IF HasPrefixAt(s, i, <<"f", "a", "l", "s", "e">>)
       THEN Ok(Lit(<<"f", "a", "l", "s", "e">>), i + 5)
  ELSE IF HasPrefixAt(s, i, <<"n", "u", "l", "l">>)
       THEN Ok(Lit(<<"n", "u", "l", "l">>), i + 4)
  ELSE ParseNumber(s, i)

\* After an element with value val, at s[k] past the white space: "]" ends
\* the array, "," continues it.
ElementsAfter(s, k, items) ==
  IF k > Len(s) THEN Fail
  ELSE IF s[k] = "]" THEN Ok(Arr(items), k + 1)
  ELSE IF s[k] = "," THEN ParseElements(s, SkipWs(s, k + 1), items)
  ELSE Fail

ElementParsed(s, r, acc) ==
  IF ~r.ok THEN Fail ELSE ElementsAfter(s, SkipWs(s, r.next), Append(acc, r.val))

\* The elements of an array from s[i], up to and including its "]".
ParseElements(s, i, acc) == ElementParsed(s, ParseValue(s, i), acc)

\* After a member with value val, at s[k] past the white space: "}" ends the
\* object, "," continues it.
MembersAfter(s, k, items) ==
  IF k > Len(s) THEN Fail
  ELSE IF s[k] = "}" THEN Ok(Obj(items), k + 1)
  ELSE IF s[k] = "," THEN ParseMembers(s, SkipWs(s, k + 1), items)
  ELSE Fail

MemberParsed(s, r, acc) ==
  IF ~r.ok THEN Fail ELSE MembersAfter(s, SkipWs(s, r.next), Append(acc, r.val))

\* After a member's key, at s[c] past the white space: ":" and the value.
MemberValue(s, c, acc) ==
  IF ~(c <= Len(s) /\ s[c] = ":") THEN Fail
  ELSE MemberParsed(s, ParseValue(s, SkipWs(s, c + 1)), acc)

MemberKeyParsed(s, key, acc) ==
  IF ~key.ok THEN Fail ELSE MemberValue(s, SkipWs(s, key.next), acc)

\* The members of an object from s[i], up to and including its "}".
ParseMembers(s, i, acc) ==
  IF ~(i <= Len(s) /\ s[i] = Quote) THEN Fail
  ELSE MemberKeyParsed(s, ParseStringChars(s, i + 1, <<>>), acc)

JsonParsed(s, r) == IF r.ok /\ SkipWs(s, r.next) = Len(s) + 1 THEN r ELSE Fail

\* JSON.parse(s): ok = FALSE is the SyntaxError it throws.
JsonParse(s) == JsonParsed(s, ParseValue(s, SkipWs(s, 1)))

----------------------------------------------------------------------------
(* Tag codec of useTickets *)

\* A variant of IsNonBlankString that keeps blank strings too.
IsAnyString(item) == item.k = "str"

\* item => typeof item === 'string' && item.trim()
IsNonBlankString(item) == item.k = "str" /\ Trim(item.v) # <<>>

RECURSIVE StringItems(_)
StringItems(items) ==
  IF items = <<>> THEN <<>>
  ELSE IF IsNonBlankString(Head(items))
       THEN <<Head(items).v>> \o StringItems(Tail(items))
       ELSE StringItems(Tail(items))

\* safeJsonParse once JSON.parse has answered: the catch branch, an array,
\* a string, anything else.
TagsOfParsed(jsonString, parsed) ==
  IF ~parsed.ok
  THEN IF Trim(jsonString) # <<>> THEN <<Trim(jsonString)>> ELSE <<>>
  ELSE IF parsed.val.k = "arr" THEN StringItems(parsed.val.v)
  ELSE IF parsed.val.k = "str" /\ Trim(parsed.val.v) # <<>>
       THEN <<Trim(parsed.val.v)>>
  ELSE <<>>

\* safeJsonParse: the stored column value (Null, Str or Arr) to a tag list.
safeJsonParse(jsonString) ==
  IF jsonString = Null \/ jsonString = Str(<<>>) THEN <<>>
  ELSE IF jsonString.k = "arr" THEN StringItems(jsonString.v)
  ELSE IF jsonString.k = "str" THEN TagsOfParsed(jsonString.v, JsonParse(jsonString.v))
  ELSE <<>>

\* safeJsonStringify: a tag list to the stored column value.
safeJsonStringify(array) ==
  IF array = <<>> THEN Null ELSE Str(JsonStringify(array))

----------------------------------------------------------------------------
(* Numbers wider than 32 bits: [hi, lo] stands for hi * 2^16 + lo *)

Two16 == 65536
Two15 == 32768

Wide(n) == [hi |-> n \div Two16, lo |-> n % Two16]
WAdd(x, y) ==
  LET l == x.lo + y.lo IN [hi |-> x.hi + y.hi + (l \div Two16), lo |-> l % Two16]
WSub(x, y) ==
  LET l == x.lo - y.lo IN [hi |-> x.hi - y.hi + (l \div Two16), lo |-> l % Two16]
WMul(x, k) ==
  LET l == x.lo * k IN [hi |-> x.hi * k + (l \div Two16), lo |-> l % Two16]
WideToInt(x) == x.hi * Two16 + x.lo

\* ToInt32 of ECMAScript: the value modulo 2^32, read as a signed 32-bit integer.
ToInt32(x) ==
  LET h == x.hi % Two16
  IN  IF h >= Two15 THEN (h - Two16) * Two16 + x.lo ELSE h * Two16 + x.lo

\* A variant of Shl5 that shifts by four places: the fold is then 15 * h + c.
Shl4(a) == ToInt32(WMul(Wide(a), 16))

\* a << 5 on a signed 32-bit a.
Shl5(a) == ToInt32(WMul(Wide(a), 32))

\* Math.abs of a signed 32-bit a, as a wide number (2^31 when a = -2^31).
MathAbs(a) == IF a < 0 THEN WSub(Wide(0), Wide(a)) ELSE Wide(a)

----------------------------------------------------------------------------
(* Number(str), parseFloat(str), parseInt(str) *)

\* Index after an optional exponent part at s[i]; 0 when "e" is not followed
\* by digits.
AfterExponent(s, i) ==
  IF ~(i <= Len(s) /\ s[i] \in {"e", "E"}) THEN i
  ELSE LET e1 == IF i + 1 <= Len(s) /\ s[i + 1] \in {"+", "-"} THEN i + 2 ELSE i + 1
       IN  IF SkipDigits(s, e1) > e1 THEN SkipDigits(s, e1) ELSE 0

\* StrUnsignedDecimalLiteral covering the whole of s from s[i].
IsUnsignedDecimal(s, i) ==
  \/ SubSeq(s, i, Len(s)) = <<"I", "n", "f", "i", "n", "i", "t", "y">>
  \/ LET d == SkipDigits(s, i)
         f == IF d <= Len(s) /\ s[d] = "." THEN SkipDigits(s, d + 1) ELSE d
         hasDigits == d > i \/ f > d + 1
     IN  hasDigits /\ AfterExponent(s, f) = Len(s) + 1

\* !isNaN(Number(str))
NumberIsNumber(str) ==
  LET s == Trim(str)
  IN  \/ s = <<>>
      \/ /\ Len(s) >= 3 /\ s[1] = "0" /\ s[2] \in {"x", "X"}
         /\ SkipRadixDigits(s, 3, 16) = Len(s) + 1
      \/ /\ Len(s) >= 3 /\ s[1] = "0" /\ s[2] \in {"o", "O"}
         /\ SkipRadixDigits(s, 3, 8) = Len(s) + 1
      \/ /\ Len(s) >= 3 /\ s[1] = "0" /\ s[2] \in {"b", "B"}
         /\ SkipRadixDigits(s, 3, 2) = Len(s) + 1
      \/ IsUnsignedDecimal(s, IF s[1] \in {"+", "-"} THEN 2 ELSE 1)

\* !isNaN(parseFloat(str)): some prefix of the trimmed string is a decimal literal.
ParseFloatIsNumber(str) ==
  LET s == TrimStart(str)
      i == IF s # <<>> /\ s[1] \in {"+", "-"} THEN 2 ELSE 1
  IN  \/ HasPrefixAt(s, i, <<"I", "n", "f", "i", "n", "i", "t", "y">>)
      \/ i <= Len(s) /\ s[i] \in Digits
      \/ i + 1 <= Len(s) /\ s[i] = "." /\ s[i + 1] \in Digits

\* isNumeric of useTickets
isNumeric(str) == NumberIsNumber(str) /\ ParseFloatIsNumber(str)

RECURSIVE DigitsValue(_, _, _, _)
DigitsValue(s, i, j, radix) ==
  IF j < i THEN 0 ELSE DigitsValue(s, i, j - 1, radix) * radix + DigitVal(s[j])

\* parseInt(str) with no radix: [nan, n].
parseInt(str) ==
  LET s == TrimStart(str)
      neg == s # <<>> /\ s[1] = "-"
      i == IF s # <<>> /\ s[1] \in {"+", "-"} THEN 2 ELSE 1
      hex == i + 1 <= Len(s) /\ s[i] = "0" /\ s[i + 1] \in {"x", "X"}
      radix == IF hex THEN 16 ELSE 10
      from == IF hex THEN i + 2 ELSE i
      to == SkipRadixDigits(s, from, radix)
      n == DigitsValue(s, from, to - 1, radix)
  IN  IF to = from THEN [nan |-> TRUE, n |-> 0]
      ELSE [nan |-> FALSE, n |-> IF neg THEN 0 - n ELSE n]

----------------------------------------------------------------------------
(* Ticket identifier of useTickets.createTicket / updateTicket *)

\* trimmedTicketId.split('').reduce((a, b) => { a = ((a << 5) - a) + b.charCodeAt(0);
\* return a & a; }, 0) in createTicket
RECURSIVE CreateHashReduce(_, _)
CreateHashReduce(a, chars) ==
  IF chars = <<>> THEN a
  ELSE CreateHashReduce(
         ToInt32(WAdd(WSub(Wide(Shl5(a)), Wide(a)), Wide(CharCode(Head(chars))))),
         Tail(chars))

\* The same reduce in updateTicket.
RECURSIVE UpdateHashReduce(_, _)
UpdateHashReduce(a, chars) ==
  IF chars = <<>> THEN a
  ELSE UpdateHashReduce(
         ToInt32(WAdd(WSub(Wide(Shl5(a)), Wide(a)), Wide(CharCode(Head(chars))))),
         Tail(chars))

\* createTicket's ticketId for a non-blank data.ticket_id, as a wide number;
\* nan when parseInt gives NaN.
CreateTicketId(ticket_id) ==
  LET trimmedTicketId == Trim(ticket_id)
  IN  IF isNumeric(trimmedTicketId)
      THEN [nan |-> parseInt(trimmedTicketId).nan,
            id |-> Wide(parseInt(trimmedTicketId).n)]
      ELSE [nan |-> FALSE, id |-> MathAbs(CreateHashReduce(0, trimmedTicketId))]

\* updateTicket's newTicketId for a non-blank updates.ticket_id.
UpdateTicketId(ticket_id) ==
  IF isNumeric(Trim(ticket_id))
  THEN [nan |-> parseInt(Trim(ticket_id)).nan,
        id |-> Wide(parseInt(Trim(ticket_id)).n)]
  ELSE [nan |-> FALSE, id |-> MathAbs(UpdateHashReduce(0, Trim(ticket_id)))]

----------------------------------------------------------------------------
(* Ticket types (types/ticket.ts) and time *)

TicketStatus ==
  {"Not Started", "Reviewed by Dev", "Waiting on Mod", "Under Review", "In Dev",
   "In QA", "Waiting on User", "Under Review - Sumsub",
   "Under Review - Provenance", "Under Review - Rain",
   "Under Review - Core Team", "Resolved"}
Severity == {"SEV-1", "SEV-2", "SEV-3", "SEV-4", "SEV-5"}

\* An absent (undefined) property of a form-data / update / filter object.
Undef == [k |-> "undef", v |-> <<>>]
UndefEnum == "undefined"
Tags(list) == [k |-> "tags", v |-> list]

\* Ticks of the clock in one calendar day.
TicksPerDay == 2
NoDate == 0
UndefDate == -1

\* new Date().toISOString().split('T')[0] at instant t
DayOf(t) == t \div TicksPerDay
\* The instant a date string denotes when compared with a timestamp: its midnight.
MidnightOf(day) == day * TicksPerDay

\* x || d on a nullable text column
TextOr(x, d) == IF x.k = "str" /\ x.v # <<>> THEN x.v ELSE d
\* x || d on a nullable enumeration column ("" stands for null)
EnumOr(x, d) == IF x # "" THEN x ELSE d
\* x || d on a nullable date or timestamp column
DateOr(x, d) == IF x # NoDate THEN x ELSE d

RECURSIVE NatToString(_)
NatToString(n) ==
  IF n < 10 THEN <<DigitChars[n + 1]>>
  ELSE Append(NatToString(n \div 10), DigitChars[(n % 10) + 1])

\* Number.prototype.toString of an integer
NumberToString(n) == IF n < 0 THEN <<"-">> \o NatToString(0 - n) ELSE NatToString(n)

----------------------------------------------------------------------------
(* The Supabase table "Active Issues" as the PostgREST client sees it *)

\* The row with primary key id (the table holds at most one).
HasRow(table, id) == \E r \in table : r.ticket_id = id
RowOf(table, id) == CHOOSE r \in table : r.ticket_id = id

\* .order('created_at', { ascending: false }): r1 comes before r2 when its
\* created_at is later, a null created_at before every other; the query
\* says nothing on rows of equal created_at.
Newer(r1, r2) ==
  \/ r1.created_at = NoDate /\ r2.created_at # NoDate
  \/ r1.created_at # NoDate /\ r2.created_at # NoDate /\ r1.created_at > r2.created_at
\* The rows that may come first.
Newest(rows) == {r \in rows : \A o \in rows : ~Newer(o, r)}
\* The orders in which the server may return the rows.
RECURSIVE OrderDesc(_)
OrderDesc(rows) ==
  IF rows = {} THEN {<<>>}
  ELSE UNION {{<<first>> \o rest : rest \in OrderDesc(rows \ {first})} :
              first \in Newest(rows)}

\* SQL LIKE on character sequences: % any run, _ any one character, and a
\* backslash makes the character after it stand for itself.  The filter
\* reads * as %.  A pattern that ends in the backslash is an error; none of
\* the patterns %q% does.
RECURSIVE LikeMatch(_, _)
LikeMatch(pattern, text) ==
  IF pattern = <<>> THEN text = <<>>
  ELSE IF Head(pattern) = Backslash
       THEN /\ Len(pattern) > 1 /\ text # <<>>
            /\ pattern[2] = Head(text)
            /\ LikeMatch(SubSeq(pattern, 3, Len(pattern)), Tail(text))
  ELSE IF Head(pattern) \in {"%", "*"}
       THEN \/ LikeMatch(Tail(pattern), text)
            \/ text # <<>> /\ LikeMatch(pattern, Tail(text))
  ELSE /\ text # <<>>
       /\ Head(pattern) = "_" \/ Head(pattern) = Head(text)
       /\ LikeMatch(Tail(pattern), Tail(text))

\* column.ilike.%q% : false on a null column.
ILikeContains(column, q) ==
  /\ column.k = "str"
  /\ LikeMatch(<<"%">> \o ToLowerCase(q) \o <<"%">>, ToLowerCase(column.v))

\* Whether q is text PostgreSQL accepts as a bigint: [+-]?digits.
IsBigintText(q) ==
  LET i == IF q # <<>> /\ q[1] \in {"+", "-"} THEN 2 ELSE 1
  IN  i <= Len(q) /\ SkipDigits(q, i) = Len(q) + 1

\* The columns an update sets: those of updateData that are not undefined
\* (JSON.stringify drops undefined properties from the request body).
ApplyUpdate(row, updateData) ==
  [ticket_id |-> IF updateData.ticket_id.set
                 THEN WideToInt(updateData.ticket_id.id) ELSE row.ticket_id,
   status |-> IF updateData.status = UndefEnum THEN row.status ELSE updateData.status,
   issue_description |-> IF updateData.issue_description = Undef
                         THEN row.issue_description ELSE updateData.issue_description,
   core_team_comment |-> IF updateData.core_team_comment = Undef
                         THEN row.core_team_comment ELSE updateData.core_team_comment,
   wallet_address_safe_email |-> IF updateData.wallet_address_safe_email = Undef
                                 THEN row.wallet_address_safe_email
                                 ELSE updateData.wallet_address_safe_email,
   product |-> updateData.product,
   category |-> updateData.category,
   severity |-> IF updateData.severity = UndefEnum THEN row.severity
                ELSE updateData.severity,
   date_of_resolved |-> IF updateData.date_of_resolved = UndefDate
                        THEN row.date_of_resolved ELSE updateData.date_of_resolved,
   created_at |-> row.created_at]

----------------------------------------------------------------------------
(* useTickets: what each operation sends and what it makes of the answer *)

\* The Ticket a row is transformed to (fetchTickets, createTicket,
\* searchTickets), at client instant now.
TransformTicket(item, now) ==
  [id |-> NumberToString(item.ticket_id),
   ticket_id |-> NumberToString(item.ticket_id),
   status |-> EnumOr(item.status, "Not Started"),
   date_created |-> DateOr(item.created_at, now),
   date_resolved |-> DateOr(item.date_of_resolved, NoDate),
   core_team_comments |-> TextOr(item.core_team_comment, <<>>),
   issue_description |-> TextOr(item.issue_description, <<>>),
   contact_info |-> TextOr(item.wallet_address_safe_email, <<>>),
   product_tags |-> safeJsonParse(item.product),
   category_tags |-> safeJsonParse(item.category),
   severity |-> EnumOr(item.severity, "SEV-3"),
   created_at |-> DateOr(item.created_at, now),
   updated_at |-> DateOr(item.created_at, now)]

TransformAll(rows, now) == [i \in 1..Len(rows) |-> TransformTicket(rows[i], now)]

\* createTicket's guard: !data.ticket_id || !data.ticket_id.trim()
TicketIdMissing(data) == data.ticket_id = Undef \/ Trim(data.ticket_id.v) = <<>>

\* The row createTicket inserts, at client instant now.
CreateRow(data, now) ==
  [ticket_id |-> WideToInt(CreateTicketId(data.ticket_id.v).id),
   status |-> data.status,
   issue_description |-> data.issue_description,
   core_team_comment |-> data.core_team_comments,
   wallet_address_safe_email |-> data.contact_info,
   product |-> safeJsonStringify(data.product_tags.v),
   category |-> safeJsonStringify(data.category_tags.v),
   severity |-> data.severity,
   date_of_resolved |-> IF data.status = "Resolved" THEN DayOf(now) ELSE NoDate,
   created_at |-> now]

\* A variant of UpdateData that sets the resolution date on 'Resolved' but
\* never clears it.
UpdateDataKeepsDate(updates, now) ==
  [status |-> updates.status,
   issue_description |-> updates.issue_description,
   core_team_comment |-> updates.core_team_comments,
   wallet_address_safe_email |-> updates.contact_info,
   product |-> IF updates.product_tags # Undef
               THEN safeJsonStringify(updates.product_tags.v) ELSE Null,
   category |-> IF updates.category_tags # Undef
                THEN safeJsonStringify(updates.category_tags.v) ELSE Null,
   severity |-> updates.severity,
   ticket_id |-> [set |-> FALSE, nan |-> FALSE, id |-> Wide(0)],
   date_of_resolved |-> IF updates.status = "Resolved" THEN DayOf(now) ELSE UndefDate]

\* updateData of updateTicket, at client instant now.
UpdateData(updates, now) ==
  [status |-> updates.status,
   issue_description |-> updates.issue_description,
   core_team_comment |-> updates.core_team_comments,
   wallet_address_safe_email |-> updates.contact_info,
   product |-> IF updates.product_tags # Undef
               THEN safeJsonStringify(updates.product_tags.v) ELSE Null,
   category |-> IF updates.category_tags # Undef
                THEN safeJsonStringify(updates.category_tags.v) ELSE Null,
   severity |-> updates.severity,
   ticket_id |-> IF updates.ticket_id # Undef /\ Trim(updates.ticket_id.v) # <<>>
                 THEN [set |-> TRUE,
                       nan |-> UpdateTicketId(updates.ticket_id.v).nan,
                       id |-> UpdateTicketId(updates.ticket_id.v).id]
                 ELSE [set |-> FALSE, nan |-> FALSE, id |-> Wide(0)],
   date_of_resolved |-> IF updates.status = "Resolved" THEN DayOf(now)
                        ELSE IF updates.status # UndefEnum /\ updates.status # ""
                             THEN NoDate
                        ELSE UndefDate]

\* updateData of bulkUpdateTicketStatus.
BulkUpdateData(status, now) ==
  [status |-> status,
   date_of_resolved |-> IF status = "Resolved" THEN DayOf(now) ELSE NoDate]

\* The local ticket updateTicket puts in place of ticket, from the returned row.
MergeUpdated(ticket, data) ==
  [ticket EXCEPT
     !.id = NumberToString(data.ticket_id),
     !.ticket_id = NumberToString(data.ticket_id),
     !.status = EnumOr(data.status, ticket.status),
     !.issue_description = TextOr(data.issue_description, ticket.issue_description),
     !.core_team_comments = TextOr(data.core_team_comment, ticket.core_team_comments),
     !.contact_info = TextOr(data.wallet_address_safe_email, ticket.contact_info),
     !.product_tags = safeJsonParse(data.product),
     !.category_tags = safeJsonParse(data.category),
     !.severity = EnumOr(data.severity, ticket.severity),
     !.date_resolved = DateOr(data.date_of_resolved, NoDate)]

\* The local ticket bulkUpdateTicketStatus puts in place of ticket.
MergeBulkStatus(ticket, status, now) ==
  [ticket EXCEPT
     !.status = status,
     !.date_resolved = IF status = "Resolved" THEN DayOf(now) ELSE NoDate]

\* The text criterion of searchTickets' query on a row: the .or(...) filter.
\* "error" when PostgreSQL rejects ticket_id.eq.<searchQuery>.
SearchOr(row, search_query) ==
  LET searchQuery == Trim(search_query)
      inText == \/ ILikeContains(row.issue_description, searchQuery)
                \/ ILikeContains(row.core_team_comment, searchQuery)
                \/ ILikeContains(row.wallet_address_safe_email, searchQuery)
  IN  IF isNumeric(searchQuery)
      THEN inText \/ (IsBigintText(searchQuery)
                      /\ ~parseInt(searchQuery).nan
                      /\ row.ticket_id = parseInt(searchQuery).n)
      ELSE inText

\* The query text is put into .or(...) as it is.  The server reads a value
\* of that list up to the next comma or closing parenthesis: a parenthesis
\* ends the list before its end, and what follows a comma is read as one
\* more filter column.operator.value, which none of the texts here is.
BreaksOrFilter(q) == \E i \in 1..Len(q) : q[i] \in {",", ")"}

\* Whether the request searchTickets builds is one the server rejects: the
\* .or(...) list does not parse, or ticket_id.eq.<searchQuery> is no bigint.
SearchRejected(filters) ==
  /\ filters.search_query # Undef /\ filters.search_query.v # <<>>
  /\ \/ BreaksOrFilter(Trim(filters.search_query.v))
     \/ /\ isNumeric(Trim(filters.search_query.v))
        /\ ~IsBigintText(Trim(filters.search_query.v))

\* The server-side part of searchTickets: the rows its query selects.  A
\* comparison with a null created_at is not true.
SearchQuery(table, filters) ==
  {row \in table :
     /\ Len(filters.status) > 0 => Includes(filters.status, row.status)
     /\ Len(filters.severity) > 0 => Includes(filters.severity, row.severity)
     /\ (filters.search_query # Undef /\ filters.search_query.v # <<>>)
          => SearchOr(row, filters.search_query.v)
     /\ filters.start # NoDate
          => row.created_at # NoDate /\ row.created_at >= MidnightOf(filters.start)
     /\ filters.end # NoDate
          => row.created_at # NoDate /\ row.created_at <= MidnightOf(filters.end)}

\* filters.<x>_tags.some(tag => ticket.<x>_tags.includes(tag))
SomeTagIn(wanted, tags) == \E i \in 1..Len(wanted) : Includes(tags, wanted[i])

\* The client-side part of searchTickets: the tag filters on the transformed list.
SearchTagFilter(transformedTickets, filters) ==
  LET byProduct ==
        IF Len(filters.product_tags) > 0
        THEN SelectSeq(transformedTickets,
                       LAMBDA ticket : SomeTagIn(filters.product_tags, ticket.product_tags))
        ELSE transformedTickets
  IN  IF Len(filters.category_tags) > 0
      THEN SelectSeq(byProduct,
                     LAMBDA ticket : SomeTagIn(filters.category_tags, ticket.category_tags))
      ELSE byProduct

----------------------------------------------------------------------------
(* State of the ticket side *)

VARIABLES
  db,          \* the rows of the Supabase table "Active Issues"
  tickets,     \* useTickets: the local ticket list
  loading,     \* useTickets: the loading flag
  error,       \* useTickets: the error message, "" for null
  reqs,        \* the hook's requests in flight
  calls,       \* how many calls the user has made
  now,         \* the client clock
  dataSource,  \* SettingsProvider: the selected data source
  mounted,     \* TRUE once the hook's mount effect has run
  last         \* what the most recently completed call was

ticketVars == <<db, tickets, loading, error, reqs, calls, now, dataSource, mounted, last>>

\* State of the Notion adapter (services/notion.ts)
VARIABLES
  pages,       \* the pages of the Notion database
  nToken,      \* whether a Notion token is configured
  nDatabaseId, \* whether a Notion database id is configured
  nCalls,      \* how many calls were made on ticketService
  nNow,        \* the clock
  nReqs,       \* the calls of ticketService that are at their await
  nLast        \* the call of ticketService that returned last, and what it returned

notionVars == <<pages, nToken, nDatabaseId, nCalls, nNow, nReqs, nLast>>

\* State of the feedback side (hooks/useFeedback.ts)
VARIABLES
  fdb,         \* the rows of the Supabase table feedback_requests
  fSerial,     \* the next value of the table's id sequence
  feedback,    \* useFeedback: the local feedback list
  fLoading,    \* useFeedback: the loading flag
  fError,      \* useFeedback: the error message, "" for null
  fReqs,       \* the hook's requests in flight
  fCalls,      \* how many calls the user has made
  fNow,        \* the client clock
  fMounted,    \* TRUE once the hook's mount effect has run
  fLast        \* what the most recently completed call was

feedbackVars ==
  <<fdb, fSerial, feedback, fLoading, fError, fReqs, fCalls, fNow, fMounted, fLast>>

\* State of the helper specification: one column value, one identifier
VARIABLES
  cOrigin,    \* where the column value came from: "none", "encoded", "legacy"
  cTags,      \* the tag list last given to safeJsonStringify
  cStored,    \* the column value (product / category)
  cDone,      \* TRUE once cStored has been decoded
  cDecoded,   \* safeJsonParse(cStored)
  hIn,        \* a user-supplied ticket identifier
  hDone,      \* TRUE once the identifier has been converted
  hCreate,    \* createTicket's ticketId for hIn
  hUpdate     \* updateTicket's newTicketId for hIn

pureVars == <<cOrigin, cTags, cStored, cDone, cDecoded, hIn, hDone, hCreate, hUpdate>>

\* State of the settings provider (contexts/SettingsContext.tsx), which also
\* owns dataSource
VARIABLES
  storage,      \* localStorage: data_source, notion_token, notion_database_id
  notionConfig, \* SettingsProvider: the Notion token and database id in memory
  sMounted,     \* TRUE once the provider's mount effects have run
  sPersisted,   \* the dataSource the persist effect last ran with
  sConfigSaved, \* the notionConfig its persist effect last ran with
  sSaved,       \* the data_source the load effect found at the mount
  sChosen       \* the latest setDataSource(s) since the mount, "" when none

settingsVars ==
  <<storage, notionConfig, sMounted, sPersisted, sConfigSaved, sSaved, sChosen>>

\* State of the App component (App.tsx) around the ticket hook
VARIABLES
  isSearchMode, \* App: TRUE while the list shown is the result of a search
  userActions,  \* history: the handlers the user invoked, in order
  anyFailed     \* history: TRUE once a request of the ticket hook has failed

\* State of the ticket form: the App's two flags (App.tsx) and the state of the
\* TicketForm component (components/TicketForm.tsx) they render
VARIABLES
  showTicketForm, \* App: TRUE while the form that creates a ticket is rendered
  editingTicket,  \* App: <<ticket>> while the form that edits it is rendered
  formData,       \* TicketForm: the fields, NoData while no form is rendered
  isSubmitting,   \* TicketForm: TRUE from a valid submit to the end of it
  formErrors      \* TicketForm: the fields the last validation refused

formVars == <<showTicketForm, editingTicket, formData, isSubmitting, formErrors>>

\* State of the feedback form: the App's two flags (App.tsx) and the state of
\* the FeedbackForm component (components/FeedbackForm.tsx) they render
VARIABLES
  showFeedbackForm,   \* App: TRUE while the form that creates an item is rendered
  editingFeedback,    \* App: <<item>> while the form that edits it is rendered
  feedbackFormData,   \* FeedbackForm: the fields, NoFeedbackData while not
  feedbackSubmitting, \* FeedbackForm: isSubmitting
  feedbackFormErrors, \* FeedbackForm: formErrors
  renderThrew         \* React: TRUE once a render of the form has thrown; no
                      \* error boundary catches it, the root is unmounted

feedbackFormVars ==
  <<showFeedbackForm, editingFeedback, feedbackFormData, feedbackSubmitting,
    feedbackFormErrors, renderThrew>>

\* State of the FeedbackGallery component (components/FeedbackGallery.tsx)
\* that the feedback tab renders; while the tab is not shown it is as first
\* rendered
VARIABLES
  feedbackPage,       \* FeedbackGallery: currentPage
  feedbackSortBy,     \* FeedbackGallery: sortBy
  feedbackEffectDeps  \* React: <<the dependencies its effects last ran with>>

feedbackGalleryVars == <<feedbackPage, feedbackSortBy, feedbackEffectDeps>>

VARIABLES
  activeTab     \* App: the tab shown, "tickets" at first

\* State of the TicketGallery component (components/TicketGallery.tsx) that the
\* search tab renders; while the tab is not shown it is as first rendered
VARIABLES
  currentPage,     \* TicketGallery: the page shown, from 1
  sortBy,          \* TicketGallery: the sort option
  selectedTickets, \* TicketGallery: the Set of selected ids, in insertion order
  bulkMode,        \* TicketGallery: TRUE while the bulk actions are switched on
  effectDeps       \* React: <<the dependencies the effects last ran with>>

galleryVars == <<currentPage, sortBy, selectedTickets, bulkMode, effectDeps>>

\* State of the BulkActions component (components/BulkActions.tsx)
VARIABLES
  showDeleteConfirm, \* BulkActions: TRUE while the confirmation dialog is open
  showStatusUpdate,  \* BulkActions: TRUE while the status dialog is open
  selectedStatus,    \* BulkActions: the status chosen in the dialog, "" for none
  bulkClicks         \* history: the button of BulkActions pressed last, "" for none

bulkActionsVars == <<showDeleteConfirm, showStatusUpdate, selectedStatus, bulkClicks>>

\* State of the useTickets() call that SearchFilters makes for itself
VARIABLES
  panelTickets,  \* SearchFilters' useTickets: the ticket list
  panelLoading,  \* SearchFilters' useTickets: the loading flag
  panelReqs      \* SearchFilters' useTickets: its requests in flight

panelVars == <<panelTickets, panelLoading, panelReqs>>

searchTabVars == <<galleryVars, bulkActionsVars, panelVars>>

\* What the ticket form and the App's ticket handlers leave alone.
besideForm == <<feedbackFormVars, feedbackGalleryVars, activeTab>>

appVars == <<isSearchMode, userActions, anyFailed, formVars, besideForm, searchTabVars>>

\* What the actions of one part of the program leave alone: the other parts.
exceptTickets == <<pureVars, notionVars, feedbackVars, settingsVars>>
exceptNotion == <<ticketVars, pureVars, feedbackVars, settingsVars, appVars>>
exceptFeedback == <<ticketVars, pureVars, notionVars, settingsVars, appVars>>
\* The same but for the feedback form, which the App closes after a save.
besideFeedbackForm ==
  <<ticketVars, pureVars, notionVars, settingsVars, isSearchMode, userActions,
    anyFailed, formVars, feedbackGalleryVars, activeTab, searchTabVars>>
exceptPure == <<ticketVars, notionVars, feedbackVars, settingsVars, appVars>>
exceptSettings ==
  <<db, tickets, loading, error, reqs, calls, now, mounted, last,
    pureVars, pages, nCalls, nNow, nReqs, nLast, feedbackVars, appVars>>

NoFilters ==
  [search_query |-> Undef, status |-> <<>>, severity |-> <<>>,
   product_tags |-> <<>>, category_tags |-> <<>>, start |-> NoDate, end |-> NoDate]

NoData ==
  [ticket_id |-> Undef, status |-> UndefEnum, core_team_comments |-> Undef,
   issue_description |-> Undef, contact_info |-> Undef,
   product_tags |-> Undef, category_tags |-> Undef, severity |-> UndefEnum]

\* A call of the hook whose request is in flight.  backend is the service the
\* hook's code sends the request to; source is the data source selected when
\* the call was made; alone says no other request was in flight with it, solo
\* that no fetch or search was.
Loads == {"fetch", "search"}

Request(op, id, data, ids, status, filters) ==
  [n |-> calls, op |-> op, id |-> id, data |-> data, ids |-> ids,
   status |-> status, filters |-> filters, at |-> now,
   source |-> dataSource, backend |-> "supabase", alone |-> reqs = {},
   solo |-> \A q \in reqs : q.op \notin Loads,
   stage |-> "sent", rows |-> <<>>]

NoLast ==
  [op |-> "none", ok |-> FALSE, alone |-> FALSE, solo |-> FALSE,
   filters |-> NoFilters,
   data |-> NoData, id |-> <<>>, ids |-> <<>>, status |-> UndefEnum, at |-> 0]

\* The requests already in flight are no longer alone once another is sent,
\* and no longer solo once a fetch or a search is.
Send(request) ==
  reqs' = {[r EXCEPT !.alone = FALSE,
                     !.solo = r.solo /\ request.op \notin Loads] : r \in reqs}
          \cup {request}

IdIn(ids, id) == Includes(ids, id)
NumericIds(ids) == {parseInt(ids[i]).n : i \in 1..Len(ids)}

ErrorMessage(op) ==
  CASE op = "fetch"      -> "Failed to fetch tickets"
    [] op = "search"     -> "Failed to search tickets"
    [] op = "create"     -> "Failed to create ticket"
    [] op = "update"     -> "Failed to update ticket"
    [] op = "delete"     -> "Failed to delete ticket"
    [] op = "bulkDelete" -> "Failed to delete tickets"
    [] op = "bulkStatus" -> "Failed to update ticket status"

----------------------------------------------------------------------------
(* useTickets: the calls, up to the await of the request *)

\* useEffect(() => { fetchTickets(); }, [])
Mount ==
  /\ ~mounted
  /\ mounted' = TRUE
  /\ loading' = TRUE
  /\ error' = ""
  /\ Send(Request("fetch", <<>>, NoData, <<>>, UndefEnum, NoFilters))
  /\ now' = now + 1
  /\ UNCHANGED <<db, tickets, calls, dataSource, last>>
  /\ UNCHANGED exceptTickets

fetchTickets ==
  /\ loading' = TRUE
  /\ error' = ""
  /\ Send(Request("fetch", <<>>, NoData, <<>>, UndefEnum, NoFilters))
  /\ calls' = calls + 1
  /\ now' = now + 1
  /\ UNCHANGED <<db, tickets, dataSource, mounted, last>>

searchTickets(filters) ==
  /\ loading' = TRUE
  /\ error' = ""
  /\ Send(Request("search", <<>>, NoData, <<>>, UndefEnum, filters))
  /\ calls' = calls + 1
  /\ now' = now + 1
  /\ UNCHANGED <<db, tickets, dataSource, mounted, last>>

\* A missing or blank ticket_id throws before any request is made.
createTicket(data) ==
  /\ calls' = calls + 1
  /\ now' = now + 1
  /\ IF TicketIdMissing(data)
     THEN /\ error' = "Ticket ID is required and cannot be empty"
          /\ last' = [NoLast EXCEPT !.op = "create", !.data = data, !.at = now,
                                    !.alone = reqs = {}]
          /\ UNCHANGED reqs
     ELSE /\ error' = ""
          /\ Send(Request("create", <<>>, data, <<>>, UndefEnum, NoFilters))
          /\ UNCHANGED last
  /\ UNCHANGED <<db, tickets, loading, dataSource, mounted>>

updateTicket(id, updates) ==
  /\ error' = ""
  /\ Send(Request("update", id, updates, <<>>, UndefEnum, NoFilters))
  /\ calls' = calls + 1
  /\ now' = now + 1
  /\ UNCHANGED <<db, tickets, loading, dataSource, mounted, last>>

deleteTicket(id) ==
  /\ error' = ""
  /\ Send(Request("delete", id, NoData, <<>>, UndefEnum, NoFilters))
  /\ calls' = calls + 1
  /\ now' = now + 1
  /\ UNCHANGED <<db, tickets, loading, dataSource, mounted, last>>

bulkDeleteTickets(ids) ==
  /\ error' = ""
  /\ Send(Request("bulkDelete", <<>>, NoData, ids, UndefEnum, NoFilters))
  /\ calls' = calls + 1
  /\ now' = now + 1
  /\ UNCHANGED <<db, tickets, loading, dataSource, mounted, last>>

bulkUpdateTicketStatus(ids, status) ==
  /\ error' = ""
  /\ Send(Request("bulkStatus", <<>>, NoData, ids, status, NoFilters))
  /\ calls' = calls + 1
  /\ now' = now + 1
  /\ UNCHANGED <<db, tickets, loading, dataSource, mounted, last>>

\* Settings: the data-source select.
setDataSource(source) ==
  /\ dataSource # source
  /\ dataSource' = source
  /\ UNCHANGED <<db, tickets, loading, error, reqs, calls, now, mounted, last>>

\* The select is used while the provider's effects are not looked at.
SelectDataSource(source) ==
  setDataSource(source) /\ UNCHANGED exceptTickets /\ UNCHANGED appVars

----------------------------------------------------------------------------
(* The Supabase service answers a request *)

Answer(r, stage, rows) ==
  reqs' = (reqs \ {r}) \cup {[r EXCEPT !.stage = stage, !.rows = rows]}

\* The request fails (network, policy, server): nothing is changed.
SupabaseFails(r) ==
  /\ r.stage = "sent"
  /\ Answer(r, "error", <<>>)
  /\ now' = now + 1
  /\ UNCHANGED <<db, tickets, loading, error, calls, dataSource, mounted, last>>
  /\ UNCHANGED exceptTickets

\* select('*').order('created_at', { ascending: false })
SupabaseSelect(r) ==
  /\ r.stage = "sent" /\ r.op = "fetch"
  /\ \E rows \in OrderDesc(db) : Answer(r, "ok", rows)
  /\ now' = now + 1
  /\ UNCHANGED <<db, tickets, loading, error, calls, dataSource, mounted, last>>
  /\ UNCHANGED exceptTickets

\* The filtered select of searchTickets.
SupabaseSearch(r) ==
  /\ r.stage = "sent" /\ r.op = "search"
  /\ IF SearchRejected(r.filters)
     THEN Answer(r, "error", <<>>)
     ELSE \E rows \in OrderDesc(SearchQuery(db, r.filters)) : Answer(r, "ok", rows)
  /\ now' = now + 1
  /\ UNCHANGED <<db, tickets, loading, error, calls, dataSource, mounted, last>>
  /\ UNCHANGED exceptTickets

\* insert([...]).select().single(): the primary key must be a new number.
SupabaseInsert(r) ==
  /\ r.stage = "sent" /\ r.op = "create"
  /\ LET row == CreateRow(r.data, r.at)
     IN  IF CreateTicketId(r.data.ticket_id.v).nan \/ HasRow(db, row.ticket_id)
         THEN Answer(r, "error", <<>>) /\ UNCHANGED db
         ELSE Answer(r, "ok", <<row>>) /\ db' = db \cup {row}
  /\ now' = now + 1
  /\ UNCHANGED <<tickets, loading, error, calls, dataSource, mounted, last>>
  /\ UNCHANGED exceptTickets

\* update(updateData).eq('ticket_id', parseInt(id)).select().single():
\* an error when no row matches, or the new primary key is null or taken.
SupabaseUpdate(r) ==
  /\ r.stage = "sent" /\ r.op = "update"
  /\ LET key == parseInt(r.id).n
         updateData == UpdateData(r.data, r.at)
     IN  IF ~HasRow(db, key) \/ (updateData.ticket_id.set /\ updateData.ticket_id.nan)
         THEN Answer(r, "error", <<>>) /\ UNCHANGED db
         ELSE LET old == RowOf(db, key)
                  new == ApplyUpdate(old, updateData)
              IN  IF new.ticket_id # key /\ HasRow(db, new.ticket_id)
                  THEN Answer(r, "error", <<>>) /\ UNCHANGED db
                  ELSE Answer(r, "ok", <<new>>) /\ db' = (db \ {old}) \cup {new}
  /\ now' = now + 1
  /\ UNCHANGED <<tickets, loading, error, calls, dataSource, mounted, last>>
  /\ UNCHANGED exceptTickets

\* Row level security of "Active Issues" (the migration): the table has its
\* policies for SELECT, INSERT and UPDATE and none for DELETE, so a DELETE
\* finds no row it may remove and still succeeds.
DeletePolicy(row) == FALSE

\* delete().eq('ticket_id', parseInt(id))
SupabaseDelete(r) ==
  /\ r.stage = "sent" /\ r.op = "delete"
  /\ Answer(r, "ok", <<>>)
  /\ db' = {row \in db : ~(row.ticket_id = parseInt(r.id).n /\ DeletePolicy(row))}
  /\ now' = now + 1
  /\ UNCHANGED <<tickets, loading, error, calls, dataSource, mounted, last>>
  /\ UNCHANGED exceptTickets

\* delete().in('ticket_id', numericIds)
SupabaseBulkDelete(r) ==
  /\ r.stage = "sent" /\ r.op = "bulkDelete"
  /\ Answer(r, "ok", <<>>)
  /\ db' = {row \in db : ~(row.ticket_id \in NumericIds(r.ids) /\ DeletePolicy(row))}
  /\ now' = now + 1
  /\ UNCHANGED <<tickets, loading, error, calls, dataSource, mounted, last>>
  /\ UNCHANGED exceptTickets

\* update(updateData).in('ticket_id', numericIds)
SupabaseBulkUpdate(r) ==
  /\ r.stage = "sent" /\ r.op = "bulkStatus"
  /\ Answer(r, "ok", <<>>)
  /\ LET updateData == BulkUpdateData(r.status, r.at)
     IN  db' = {IF row.ticket_id \in NumericIds(r.ids)
                THEN [row EXCEPT !.status = updateData.status,
                                 !.date_of_resolved = updateData.date_of_resolved]
                ELSE row : row \in db}
  /\ now' = now + 1
  /\ UNCHANGED <<tickets, loading, error, calls, dataSource, mounted, last>>
  /\ UNCHANGED exceptTickets

----------------------------------------------------------------------------
(* useTickets: the rest of each call, once its request is answered *)

MapTickets(list, Change(_)) == [i \in 1..Len(list) |-> Change(list[i])]

Completed(r) ==
  [op |-> r.op, ok |-> r.stage = "ok", alone |-> r.alone, solo |-> r.solo,
   filters |-> r.filters,
   data |-> r.data, id |-> r.id, ids |-> r.ids, status |-> r.status, at |-> r.at]

\* A variant of HandleError that also empties the local list.
HandleErrorClearsList(r) ==
  /\ r.stage = "error"
  /\ error' = ErrorMessage(r.op)
  /\ loading' = IF r.op \in {"fetch", "search"} THEN FALSE ELSE loading
  /\ tickets' = <<>>
  /\ reqs' = reqs \ {r}
  /\ last' = Completed(r)
  /\ UNCHANGED <<db, calls, now, dataSource, mounted>>
  /\ UNCHANGED exceptTickets

\* A variant of HandleError without the finally block of fetch and search.
HandleErrorKeepsLoading(r) ==
  /\ r.stage = "error"
  /\ error' = ErrorMessage(r.op)
  /\ reqs' = reqs \ {r}
  /\ last' = Completed(r)
  /\ UNCHANGED <<db, tickets, loading, calls, now, dataSource, mounted>>
  /\ UNCHANGED exceptTickets

\* catch: setError(...); for fetch and search, finally: setLoading(false).
HandleError(r) ==
  /\ r.stage = "error"
  /\ error' = ErrorMessage(r.op)
  /\ loading' = IF r.op \in {"fetch", "search"} THEN FALSE ELSE loading
  /\ reqs' = reqs \ {r}
  /\ last' = Completed(r)
  /\ UNCHANGED <<db, tickets, calls, now, dataSource, mounted>>
  /\ UNCHANGED exceptTickets

HandleFetch(r) ==
  /\ r.stage = "ok" /\ r.op = "fetch"
  /\ tickets' = TransformAll(r.rows, now)
  /\ loading' = FALSE
  /\ reqs' = reqs \ {r}
  /\ last' = Completed(r)
  /\ UNCHANGED <<db, error, calls, now, dataSource, mounted>>
  /\ UNCHANGED exceptTickets

HandleSearch(r) ==
  /\ r.stage = "ok" /\ r.op = "search"
  /\ tickets' = SearchTagFilter(TransformAll(r.rows, now), r.filters)
  /\ loading' = FALSE
  /\ reqs' = reqs \ {r}
  /\ last' = Completed(r)
  /\ UNCHANGED <<db, error, calls, now, dataSource, mounted>>
  /\ UNCHANGED exceptTickets

HandleCreate(r) ==
  /\ r.stage = "ok" /\ r.op = "create"
  /\ tickets' = <<TransformTicket(r.rows[1], now)>> \o tickets
  /\ reqs' = reqs \ {r}
  /\ last' = Completed(r)
  /\ UNCHANGED <<db, loading, error, calls, now, dataSource, mounted>>
  /\ UNCHANGED exceptTickets

HandleUpdate(r) ==
  /\ r.stage = "ok" /\ r.op = "update"
  /\ tickets' = MapTickets(tickets,
         LAMBDA ticket : IF ticket.id = r.id THEN MergeUpdated(ticket, r.rows[1])
                         ELSE ticket)
  /\ reqs' = reqs \ {r}
  /\ last' = Completed(r)
  /\ UNCHANGED <<db, loading, error, calls, now, dataSource, mounted>>
  /\ UNCHANGED exceptTickets

HandleDelete(r) ==
  /\ r.stage = "ok" /\ r.op = "delete"
  /\ tickets' = SelectSeq(tickets, LAMBDA ticket : ticket.id # r.id)
  /\ reqs' = reqs \ {r}
  /\ last' = Completed(r)
  /\ UNCHANGED <<db, loading, error, calls, now, dataSource, mounted>>
  /\ UNCHANGED exceptTickets

HandleBulkDelete(r) ==
  /\ r.stage = "ok" /\ r.op = "bulkDelete"
  /\ tickets' = SelectSeq(tickets, LAMBDA ticket : ~IdIn(r.ids, ticket.id))
  /\ reqs' = reqs \ {r}
  /\ last' = Completed(r)
  /\ UNCHANGED <<db, loading, error, calls, now, dataSource, mounted>>
  /\ UNCHANGED exceptTickets

HandleBulkStatus(r) ==
  /\ r.stage = "ok" /\ r.op = "bulkStatus"
  /\ tickets' = MapTickets(tickets,
         LAMBDA ticket : IF IdIn(r.ids, ticket.id)
                         THEN MergeBulkStatus(ticket, r.status, now)
                         ELSE ticket)
  /\ reqs' = reqs \ {r}
  /\ last' = Completed(r)
  /\ UNCHANGED <<db, loading, error, calls, now, dataSource, mounted>>
  /\ UNCHANGED exceptTickets

----------------------------------------------------------------------------
(* Specification Spec: one client of the Supabase table, one call at a time *)

Row1 ==
  [ticket_id |-> 1, status |-> "Not Started", issue_description |-> Str(<<"a", "b">>),
   core_team_comment |-> Null, wallet_address_safe_email |-> Str(<<"x">>),
   product |-> safeJsonStringify(<<<<"p">>>>), category |-> Null,
   severity |-> "SEV-3", date_of_resolved |-> NoDate, created_at |-> 1]
Row12 ==
  [ticket_id |-> 12, status |-> "Resolved", issue_description |-> Str(<<"B">>),
   core_team_comment |-> Str(<<"c">>), wallet_address_safe_email |-> Str(<<"y">>),
   product |-> Str(<<"p">>), category |-> safeJsonStringify(<<<<"k">>>>),
   severity |-> "SEV-1", date_of_resolved |-> 1, created_at |-> MidnightOf(1)]
Row97 ==
  [ticket_id |-> 97, status |-> "In Dev", issue_description |-> Str(<<"a", "c", "b">>),
   core_team_comment |-> Str(<<>>), wallet_address_safe_email |-> Str(<<"z", "1">>),
   product |-> Null, category |-> Arr(<<Str(<<"k">>), Num(<<"1">>)>>),
   severity |-> "SEV-3", date_of_resolved |-> NoDate, created_at |-> MidnightOf(1) + 1]

\* Tables the client may find: each row has a resolution date exactly when
\* its status is 'Resolved'.
InitialTables == {{Row1, Row12}, {Row1, Row12, Row97}}
StartInstant == MidnightOf(2)

Form(ticket_id, status, comments, description, contact, product_tags, category_tags,
     severity) ==
  [ticket_id |-> Str(ticket_id), status |-> status,
   core_team_comments |-> Str(comments), issue_description |-> Str(description),
   contact_info |-> Str(contact), product_tags |-> Tags(product_tags),
   category_tags |-> Tags(category_tags), severity |-> severity]

\* What the ticket form submits: every field present.
TicketForms ==
  { Form(<<"3">>, "Resolved", <<>>, <<"a", "b">>, <<"x">>, <<<<"p">>>>, <<>>, "SEV-2"),
    Form(<<" ", "a">>, "In Dev", <<"c">>, <<"B">>, <<"y">>, <<>>, <<<<"k">>>>, "SEV-3"),
    Form(<<"1", "2">>, "Not Started", <<>>, <<"b", "1">>, <<"z">>, <<<<"q">>, <<"p">>>>,
         <<>>, "SEV-1") }
BlankIdForm ==
  Form(<<" ">>, "Not Started", <<>>, <<"a">>, <<"x">>, <<>>, <<>>, "SEV-3")
\* The same data with no ticket_id at all.
MissingIdForm == [BlankIdForm EXCEPT !.ticket_id = Undef]

Filter(search_query, status, severity, product_tags, category_tags, start, end) ==
  [search_query |-> search_query, status |-> status, severity |-> severity,
   product_tags |-> product_tags, category_tags |-> category_tags,
   start |-> start, end |-> end]

\* Filters without a text query.
CriteriaFilters ==
  { NoFilters,
    Filter(Undef, <<"Resolved", "In Dev">>, <<>>, <<>>, <<>>, NoDate, NoDate),
    Filter(Undef, <<>>, <<"SEV-3", "SEV-2">>, <<<<"p">>>>, <<>>, NoDate, NoDate),
    Filter(Undef, <<"Resolved">>, <<"SEV-1">>, <<>>, <<<<"z">>, <<"k">>>>, NoDate, NoDate),
    Filter(Undef, <<>>, <<>>, <<>>, <<<<"k">>>>, 1, NoDate),
    Filter(Undef, <<>>, <<>>, <<>>, <<>>, 1, 1),
    Filter(Undef, <<>>, <<>>, <<>>, <<>>, NoDate, 2) }
\* Filters with a text query.
QueryFilters ==
  { Filter(Str(<<"b">>), <<>>, <<>>, <<>>, <<>>, NoDate, NoDate),
    Filter(Str(<<"1">>), <<>>, <<>>, <<>>, <<>>, NoDate, NoDate),
    Filter(Str(<<" ", "A", "B">>), <<"Not Started">>, <<>>, <<>>, <<>>, NoDate, NoDate),
    Filter(Str(<<"a", "_", "b">>), <<>>, <<>>, <<>>, <<>>, NoDate, NoDate),
    Filter(Str(<<"1", ".", "5">>), <<>>, <<>>, <<>>, <<>>, NoDate, NoDate),
    Filter(Str(<<"a", Backslash, "c">>), <<>>, <<>>, <<>>, <<>>, NoDate, NoDate),
    Filter(Str(<<"a", ",", "b">>), <<>>, <<>>, <<>>, <<>>, NoDate, NoDate) }

BulkStatuses == {"Resolved", "In QA"}
DataSources == {"notion", "supabase"}

LocalIds == [i \in 1..Len(tickets) |-> tickets[i].id]
\* Selections of the gallery: one ticket, or all of them.
Selections == {<<LocalIds[i]>> : i \in 1..Len(tickets)} \cup ({LocalIds} \ {<<>>})

TicketInit ==
  /\ db \in InitialTables
  /\ tickets = <<>>
  /\ loading = FALSE
  /\ error = ""
  /\ reqs = {}
  /\ calls = 0
  /\ now = StartInstant
  /\ dataSource = "supabase"
  /\ mounted = FALSE
  /\ last = NoLast

\* The user makes a call, having waited for the previous one to complete.
Ready == mounted /\ reqs = {} /\ calls < MaxCalls

\* The user invokes a handler of the App: noted in userActions.  Up to its
\* await no handler changes the App's form flags.
Invoked(action) ==
  /\ userActions' = Append(userActions, action)
  /\ UNCHANGED <<anyFailed, showTicketForm, editingTicket>>
  /\ UNCHANGED besideForm

\* The handler is not called by a form: the TicketForm's state is as it was.
FormKept == UNCHANGED <<formData, isSubmitting, formErrors>>
\* The handler is not called from the search tab, which is as it was.
SearchTabKept == UNCHANGED searchTabVars

\* App.handleClearSearch: fetchTickets(); setIsSearchMode(false)
handleClearSearch ==
  /\ fetchTickets
  /\ isSearchMode' = FALSE
  /\ Invoked("clear") /\ FormKept
  /\ UNCHANGED exceptTickets
\* App.handleSearch, up to the await; the rest is AfterAwait.
handleSearch(filters) ==
  /\ searchTickets(filters)
  /\ UNCHANGED isSearchMode /\ Invoked("search") /\ FormKept
  /\ UNCHANGED exceptTickets
handleCreateTicket(data) ==
  /\ createTicket(data)
  /\ UNCHANGED isSearchMode /\ Invoked("create")
  /\ UNCHANGED exceptTickets
\* App.handleUpdateTicket: returns at once while no ticket is being edited;
\* the ticket updated is the one in editingTicket.
handleUpdateTicket(updates) ==
  /\ editingTicket # <<>>
  /\ updateTicket(editingTicket[1].id, updates)
  /\ UNCHANGED isSearchMode /\ Invoked("update")
  /\ UNCHANGED exceptTickets
handleDeleteTicket(id) ==
  /\ deleteTicket(id)
  /\ UNCHANGED isSearchMode /\ Invoked("delete") /\ FormKept
  /\ UNCHANGED exceptTickets
handleBulkDeleteTickets(ids) ==
  /\ bulkDeleteTickets(ids)
  /\ UNCHANGED isSearchMode /\ Invoked("bulkDelete") /\ FormKept
  /\ UNCHANGED exceptTickets
handleBulkUpdateTicketStatus(ids, status) ==
  /\ bulkUpdateTicketStatus(ids, status)
  /\ UNCHANGED isSearchMode /\ Invoked("bulkStatus") /\ FormKept
  /\ UNCHANGED exceptTickets

\* What the App's handler does once the hook's call has returned: handleSearch
\* sets the search mode, also after a failed search, which searchTickets does
\* not rethrow.
\* After a save: handleCreateTicket and handleUpdateTicket close their form
\* when the call succeeded and swallow its failure, so that onSave never
\* rejects; handleSubmit of the form that made the call then goes on with
\* its onCancel(), which is setShowTicketForm(false) for a form that creates
\* and setEditingTicket(null) for a form that edits.  That closes the form
\* of this kind that is rendered now, be it the one that made the call or
\* one opened since; a form no longer rendered has lost its state.
AfterSave(r) ==
  LET unmounts == IF r.op = "create" THEN showTicketForm ELSE editingTicket # <<>>
  IN  /\ showTicketForm' = IF r.op = "create" THEN FALSE ELSE showTicketForm
      /\ editingTicket' = IF r.op = "update" THEN <<>> ELSE editingTicket
      /\ formData' = IF unmounts THEN NoData ELSE formData
      /\ isSubmitting' = IF unmounts THEN FALSE ELSE isSubmitting
      /\ formErrors' = IF unmounts THEN {} ELSE formErrors

AfterAwait(r) ==
  /\ isSearchMode' = IF r.op = "search" THEN TRUE ELSE isSearchMode
  /\ anyFailed' = (anyFailed \/ r.stage = "error")
  /\ UNCHANGED userActions
  /\ IF r.op \in {"create", "update"} THEN AfterSave(r) ELSE UNCHANGED formVars
  /\ UNCHANGED besideForm
  /\ UNCHANGED searchTabVars

\* TicketForm (components/TicketForm.tsx) in the App

\* useState<TicketFormData>({ ticket_id: '', status: 'Not Started', ... })
EmptyTicketForm ==
  Form(<<>>, "Not Started", <<>>, <<>>, <<>>, <<>>, <<>>, "SEV-3")

\* The form's effect on [ticket]: the fields of the ticket being edited.
TicketFormOf(ticket) ==
  [ticket_id |-> Str(ticket.ticket_id), status |-> ticket.status,
   core_team_comments |-> Str(ticket.core_team_comments),
   issue_description |-> Str(ticket.issue_description),
   contact_info |-> Str(ticket.contact_info),
   product_tags |-> Tags(ticket.product_tags),
   category_tags |-> Tags(ticket.category_tags), severity |-> ticket.severity]

\* !value || !value.trim()
BlankField(value) == value = Undef \/ IsBlank(value.v)

\* validateForm: the fields with an error; the form is valid when none has.
TicketFormErrors(data) ==
  {field \in {"ticket_id", "issue_description", "contact_info"} :
     BlankField(data[field])}

TicketFormRendered == showTicketForm \/ editingTicket # <<>>
\* The form, a fixed overlay over the whole window, keeps the page behind it
\* out of reach while it is rendered.
OnPage == ~TicketFormRendered

\* The "New Ticket" buttons: setShowTicketForm(true); the form mounts.
OpenTicketForm ==
  /\ showTicketForm' = TRUE
  /\ formData' = EmptyTicketForm
  /\ isSubmitting' = FALSE /\ formErrors' = {}
  /\ UNCHANGED <<editingTicket, isSearchMode, userActions, anyFailed>>
  /\ UNCHANGED besideForm /\ SearchTabKept
  /\ UNCHANGED ticketVars
  /\ UNCHANGED exceptTickets

\* App.handleEditTicket: setEditingTicket(ticket); the form mounts and its
\* effect copies the ticket.
handleEditTicket(ticket) ==
  /\ editingTicket' = <<ticket>>
  /\ formData' = TicketFormOf(ticket)
  /\ isSubmitting' = FALSE /\ formErrors' = {}
  /\ UNCHANGED <<showTicketForm, isSearchMode, userActions, anyFailed>>
  /\ UNCHANGED besideForm /\ SearchTabKept
  /\ UNCHANGED ticketVars
  /\ UNCHANGED exceptTickets

ChangedFields(old, new) == {field \in DOMAIN new : old[field] # new[field]}

\* updateField, for every field the user changes: the value is set and the
\* field's error cleared.
TicketFormFill(data) ==
  /\ TicketFormRendered
  /\ formData' = data
  /\ formErrors' = formErrors \ ChangedFields(formData, data)
  /\ UNCHANGED <<showTicketForm, editingTicket, isSubmitting>>
  /\ UNCHANGED <<isSearchMode, userActions, anyFailed>>
  /\ UNCHANGED besideForm /\ SearchTabKept
  /\ UNCHANGED ticketVars
  /\ UNCHANGED exceptTickets

\* The Cancel and close buttons, which a submit in flight leaves enabled:
\* onCancel().
TicketFormCancel ==
  /\ TicketFormRendered
  /\ showTicketForm' = FALSE /\ editingTicket' = <<>>
  /\ formData' = NoData /\ isSubmitting' = FALSE /\ formErrors' = {}
  /\ UNCHANGED <<isSearchMode, userActions, anyFailed>>
  /\ UNCHANGED besideForm /\ SearchTabKept
  /\ UNCHANGED ticketVars
  /\ UNCHANGED exceptTickets

\* handleSubmit refusing the form: setFormErrors(errors); return.
TicketFormRefuse ==
  /\ TicketFormRendered /\ ~isSubmitting
  /\ TicketFormErrors(formData) # {}
  /\ formErrors' = TicketFormErrors(formData)
  /\ UNCHANGED <<showTicketForm, editingTicket, formData, isSubmitting>>
  /\ UNCHANGED <<isSearchMode, userActions, anyFailed>>
  /\ UNCHANGED besideForm /\ SearchTabKept
  /\ UNCHANGED ticketVars
  /\ UNCHANGED exceptTickets

\* handleSubmit up to its await: onSave is handleCreateTicket for the form
\* that creates and handleUpdateTicket for the form that edits.  The rest of
\* it is in AfterSave.
TicketFormSubmit ==
  /\ TicketFormRendered /\ ~isSubmitting
  /\ TicketFormErrors(formData) = {}
  /\ formErrors' = {}
  /\ isSubmitting' = TRUE
  /\ UNCHANGED formData
  /\ IF editingTicket = <<>>
     THEN handleCreateTicket(formData)
     ELSE handleUpdateTicket(formData)
  /\ SearchTabKept

\* The user edits a ticket of the list: opens its form, changes the fields
\* and submits, each time having waited for the previous call to complete.
UserEdit(ticket) == Ready /\ OnPage /\ handleEditTicket(ticket)
UserFill(updates) == Ready /\ editingTicket # <<>> /\ TicketFormFill(updates)
UserUpdate == Ready /\ editingTicket # <<>> /\ TicketFormSubmit

\* The calls of a user of the ticket tab

UserFetch == Ready /\ OnPage /\ handleClearSearch /\ SearchTabKept
UserSearch(filters) == Ready /\ OnPage /\ handleSearch(filters) /\ SearchTabKept
UserCreate(data) == Ready /\ OnPage /\ handleCreateTicket(data) /\ FormKept /\ SearchTabKept
UserDelete(id) == Ready /\ OnPage /\ handleDeleteTicket(id) /\ SearchTabKept
UserBulkDelete(ids) == Ready /\ OnPage /\ handleBulkDeleteTickets(ids) /\ SearchTabKept
UserBulkStatus(ids, status) ==
  Ready /\ OnPage /\ handleBulkUpdateTicketStatus(ids, status) /\ SearchTabKept

UserCall ==
  \/ UserFetch
  \/ \E filters \in CriteriaFilters \cup QueryFilters : UserSearch(filters)
  \/ \E data \in TicketForms \cup {BlankIdForm, MissingIdForm} : UserCreate(data)
  \/ \E i \in 1..Len(tickets) : UserEdit(tickets[i])
  \/ \E updates \in TicketForms : UserFill(updates)
  \/ UserUpdate
  \/ \E i \in 1..Len(tickets) : UserDelete(tickets[i].id)
  \/ \E ids \in Selections : UserBulkDelete(ids)
  \/ \E ids \in Selections, status \in BulkStatuses : UserBulkStatus(ids, status)

Supabase ==
  \/ \E r \in reqs : SupabaseFails(r) /\ UNCHANGED appVars
  \/ \E r \in reqs : SupabaseSelect(r) /\ UNCHANGED appVars
  \/ \E r \in reqs : SupabaseSearch(r) /\ UNCHANGED appVars
  \/ \E r \in reqs : SupabaseInsert(r) /\ UNCHANGED appVars
  \/ \E r \in reqs : SupabaseUpdate(r) /\ UNCHANGED appVars
  \/ \E r \in reqs : SupabaseDelete(r) /\ UNCHANGED appVars
  \/ \E r \in reqs : SupabaseBulkDelete(r) /\ UNCHANGED appVars
  \/ \E r \in reqs : SupabaseBulkUpdate(r) /\ UNCHANGED appVars

Handle ==
  \/ \E r \in reqs : HandleError(r) /\ AfterAwait(r)
  \/ \E r \in reqs : HandleFetch(r) /\ AfterAwait(r)
  \/ \E r \in reqs : HandleSearch(r) /\ AfterAwait(r)
  \/ \E r \in reqs : HandleCreate(r) /\ AfterAwait(r)
  \/ \E r \in reqs : HandleUpdate(r) /\ AfterAwait(r)
  \/ \E r \in reqs : HandleDelete(r) /\ AfterAwait(r)
  \/ \E r \in reqs : HandleBulkDelete(r) /\ AfterAwait(r)
  \/ \E r \in reqs : HandleBulkStatus(r) /\ AfterAwait(r)

\* The hook's mount effect, in the App.
MountTickets == Mount /\ UNCHANGED appVars

TicketNext ==
  \/ MountTickets
  \/ UserCall
  \/ Supabase
  \/ Handle
  \/ \E source \in DataSources : SelectDataSource(source)

----------------------------------------------------------------------------
(* The Notion adapter (services/notion.ts) *)

\* The TypeError of data.product_tags.map or data.category_tags.map on data
\* that lacks the tag list.
Thrown == [threw |-> "TypeError"]

\* ticketToNotionProperties(data, ticketId) at instant t; ticketId is Undef
\* for an update.
ticketToNotionProperties(data, ticketId, t) ==
  IF data.product_tags = Undef \/ data.category_tags = Undef THEN Thrown
  ELSE
  [Status |-> data.status,
   CoreTeamComments |-> TextOr(data.core_team_comments, <<>>),
   IssueDescription |-> TextOr(data.issue_description, <<>>),
   ContactInfo |-> TextOr(data.contact_info, <<>>),
   ProductTags |-> data.product_tags.v,
   CategoryTags |-> data.category_tags.v,
   Severity |-> data.severity,
   TicketID |-> ticketId,
   DateCreated |-> IF ticketId # Undef /\ ticketId.v # <<>> THEN t ELSE UndefDate,
   DateResolved |-> IF data.status = "Resolved" THEN t ELSE NoDate]

\* notionPageToTicket, called at instant t: a page without 'Date Created'
\* gets new Date().
notionPageToTicket(page, t) ==
  [id |-> page.id,
   ticket_id |-> TextOr(page.properties.TicketID, <<>>),
   status |-> EnumOr(page.properties.Status, "Not Started"),
   date_created |-> DateOr(page.properties.DateCreated, t),
   date_resolved |-> DateOr(page.properties.DateResolved, NoDate),
   core_team_comments |-> page.properties.CoreTeamComments,
   issue_description |-> page.properties.IssueDescription,
   contact_info |-> page.properties.ContactInfo,
   product_tags |-> page.properties.ProductTags,
   category_tags |-> page.properties.CategoryTags,
   severity |-> EnumOr(page.properties.Severity, "SEV-3"),
   created_at |-> page.created_time,
   updated_at |-> page.last_edited_time]

\* generateTicketId: `TKT-${Date.now()}-${random}` with the random part suffix.
NotionTicketId(t, suffix) ==
  <<"T", "K", "T", "-">> \o NumberToString(t) \o <<"-">> \o suffix

\* String.prototype.includes
StringIncludes(text, part) ==
  \E i \in 1..(Len(text) - Len(part) + 1) : SubSeq(text, i, i + Len(part) - 1) = part

\* The filter searchTickets sends: the first selected status, the first
\* selected severity, the date bounds.
NotionFilter(filters) ==
  [status |-> IF Len(filters.status) > 0 THEN filters.status[1] ELSE UndefEnum,
   severity |-> IF Len(filters.severity) > 0 THEN filters.severity[1] ELSE UndefEnum,
   on_or_after |-> filters.start,
   on_or_before |-> filters.end]

\* databases.query: the pages not archived that satisfy every condition of
\* the filter; a page without 'Date Created' satisfies no condition on it.
NotionQuery(filter) ==
  {page \in pages :
     /\ ~page.archived
     /\ filter.status # UndefEnum => page.properties.Status = filter.status
     /\ filter.severity # UndefEnum => page.properties.Severity = filter.severity
     /\ filter.on_or_after # NoDate
          => /\ page.properties.DateCreated # NoDate
             /\ page.properties.DateCreated >= MidnightOf(filter.on_or_after)
     /\ filter.on_or_before # NoDate
          => /\ page.properties.DateCreated # NoDate
             /\ page.properties.DateCreated <= MidnightOf(filter.on_or_before)}

\* sorts: 'Date Created' descending.  The request says nothing on pages of
\* equal 'Date Created' nor on pages without one.
NewerPage(p1, p2) ==
  /\ p1.properties.DateCreated # NoDate /\ p2.properties.DateCreated # NoDate
  /\ p1.properties.DateCreated > p2.properties.DateCreated
\* The orders in which the service may return the pages.
RECURSIVE OrderPages(_)
OrderPages(ps) ==
  IF ps = {} THEN {<<>>}
  ELSE UNION {{<<first>> \o rest : rest \in OrderPages(ps \ {first})} :
              first \in {p \in ps : \A o \in ps : ~NewerPage(o, p)}}

\* response.results.map(notionPageToTicket) at instant t
PagesToTickets(results, t) ==
  [i \in 1..Len(results) |-> notionPageToTicket(results[i], t)]

\* The client-side filters of searchTickets: text, product tags, category tags.
NotionClientFilter(results, filters) ==
  LET byText ==
        IF filters.search_query # Undef /\ filters.search_query.v # <<>>
        THEN LET query == ToLowerCase(filters.search_query.v)
             IN  SelectSeq(results, LAMBDA ticket :
                   \/ StringIncludes(ToLowerCase(ticket.issue_description), query)
                   \/ StringIncludes(ToLowerCase(ticket.core_team_comments), query)
                   \/ StringIncludes(ToLowerCase(ticket.contact_info), query)
                   \/ StringIncludes(ToLowerCase(ticket.ticket_id), query))
        ELSE results
      byProduct ==
        IF Len(filters.product_tags) > 0
        THEN SelectSeq(byText, LAMBDA ticket :
               SomeTagIn(filters.product_tags, ticket.product_tags))
        ELSE byText
  IN  IF Len(filters.category_tags) > 0
      THEN SelectSeq(byProduct, LAMBDA ticket :
             SomeTagIn(filters.category_tags, ticket.category_tags))
      ELSE byProduct

NoNotionCall ==
  [op |-> "none", ok |-> FALSE, alone |-> FALSE, filters |-> NoFilters,
   data |-> NoData, result |-> <<>>]
NotionCall(op, ok, filters, data, result) ==
  [op |-> op, ok |-> ok, alone |-> nReqs = {}, filters |-> filters, data |-> data,
   result |-> result]

\* A call at its await: what it sent, and what the service answered.  alone
\* says that no other call was at its await at the same time.
\* properties of a request that sends none: never read.
NoProperties == ticketToNotionProperties(BlankIdForm, Undef, NoDate)
NotionRequest(op, filters, data, id, properties) ==
  [op |-> op, stage |-> "sent", at |-> nCalls + 1, alone |-> nReqs = {},
   filters |-> filters, data |-> data, id |-> id, properties |-> properties,
   results |-> <<>>]
NotionSend(request) ==
  nReqs' = {[r EXCEPT !.alone = FALSE] : r \in nReqs} \cup {request}
NotionAnswer(r, stage, results) ==
  nReqs' = (nReqs \ {r}) \cup {[r EXCEPT !.stage = stage, !.results = results]}

\* What a call leaves alone up to its await, and what the service does.
notionCallKept == UNCHANGED <<pages, nToken, nDatabaseId>>
notionServiceKept == UNCHANGED <<nToken, nDatabaseId, nCalls, nLast>>

\* ticketService.createTicket up to its await: throws without database id or
\* token or when the properties cannot be built, else sends pages.create
\* with the properties built now.
NotionCreateTicket(data, suffix) ==
  /\ nCalls' = nCalls + 1
  /\ nNow' = nNow + 1
  /\ LET properties ==
           ticketToNotionProperties(data, Str(NotionTicketId(nNow, suffix)), nNow)
     IN  IF ~nDatabaseId \/ ~nToken \/ properties = Thrown
         THEN /\ nLast' = NotionCall("create", FALSE, NoFilters, data, <<>>)
              /\ UNCHANGED nReqs
         ELSE /\ NotionSend(NotionRequest("create", NoFilters, data, 0, properties))
              /\ UNCHANGED nLast
  /\ notionCallKept

\* ticketService.getTickets up to its await
NotionGetTickets ==
  /\ nCalls' = nCalls + 1
  /\ nNow' = nNow + 1
  /\ IF ~nDatabaseId \/ ~nToken
     THEN /\ nLast' = NotionCall("get", FALSE, NoFilters, NoData, <<>>)
          /\ UNCHANGED nReqs
     ELSE /\ NotionSend(NotionRequest("get", NoFilters, NoData, 0, NoProperties))
          /\ UNCHANGED nLast
  /\ notionCallKept

\* ticketService.updateTicket up to its await: throws without token or when
\* the properties cannot be built from the updates, else sends pages.update
\* with the properties built now.
NotionUpdateTicket(id, updates) ==
  /\ nCalls' = nCalls + 1
  /\ nNow' = nNow + 1
  /\ LET properties == ticketToNotionProperties(updates, Undef, nNow)
     IN  IF ~nToken \/ properties = Thrown
         THEN /\ nLast' = NotionCall("update", FALSE, NoFilters, updates, <<>>)
              /\ UNCHANGED nReqs
         ELSE /\ NotionSend(NotionRequest("update", NoFilters, updates, id, properties))
              /\ UNCHANGED nLast
  /\ notionCallKept

\* ticketService.deleteTicket up to its await
NotionDeleteTicket(id) ==
  /\ nCalls' = nCalls + 1
  /\ nNow' = nNow + 1
  /\ IF ~nToken
     THEN /\ nLast' = NotionCall("delete", FALSE, NoFilters, NoData, <<>>)
          /\ UNCHANGED nReqs
     ELSE /\ NotionSend(NotionRequest("delete", NoFilters, NoData, id, NoProperties))
          /\ UNCHANGED nLast
  /\ notionCallKept

\* ticketService.searchTickets up to its await
NotionSearchTickets(filters) ==
  /\ nCalls' = nCalls + 1
  /\ nNow' = nNow + 1
  /\ IF ~nDatabaseId \/ ~nToken
     THEN /\ nLast' = NotionCall("search", FALSE, filters, NoData, <<>>)
          /\ UNCHANGED nReqs
     ELSE /\ NotionSend(NotionRequest("search", filters, NoData, 0, NoProperties))
          /\ UNCHANGED nLast
  /\ notionCallKept

\* The service rejects the request (the token or the database is not
\* accepted, the request is refused or does not get through): the promise
\* of the client rejects and nothing is changed.
NotionRejects(r) == NotionAnswer(r, "error", <<>>) /\ UNCHANGED pages

\* pages.create: the service creates the page, its times are the service's,
\* or rejects the request.
NotionPagesCreate(r) ==
  /\ r.stage = "sent" /\ r.op = "create"
  /\ \/ LET page == [id |-> Cardinality(pages) + 1, archived |-> FALSE,
                     created_time |-> nNow, last_edited_time |-> nNow,
                     properties |-> r.properties]
        IN  pages' = pages \cup {page} /\ NotionAnswer(r, "ok", <<page>>)
     \/ NotionRejects(r)
  /\ nNow' = nNow + 1
  /\ notionServiceKept

\* databases.query of getTickets or searchTickets: the service answers with
\* the pages, or rejects the request.
NotionDatabasesQuery(r) ==
  /\ r.stage = "sent" /\ r.op \in {"get", "search"}
  /\ \/ /\ \E results \in OrderPages(NotionQuery(NotionFilter(r.filters))) :
             NotionAnswer(r, "ok", results)
        /\ UNCHANGED pages
     \/ NotionRejects(r)
  /\ nNow' = nNow + 1
  /\ notionServiceKept

\* The page with this id can be changed: it exists and is not archived.
LivePage(id) == \E page \in pages : page.id = id /\ ~page.archived

\* The service applies pages.update of updateTicket: the properties sent
\* replace the page's; the ticket id and the creation date are not among them.
\* It rejects the request on a page that is missing or archived, and may
\* reject it on any page.
NotionPagesUpdate(r) ==
  /\ r.stage = "sent" /\ r.op = "update"
  /\ \/ /\ LivePage(r.id)
        /\ LET old == CHOOSE page \in pages : page.id = r.id
               new == [old EXCEPT
                         !.last_edited_time = nNow,
                         !.properties =
                            [r.properties EXCEPT !.TicketID = old.properties.TicketID,
                                                 !.DateCreated = old.properties.DateCreated]]
           IN  pages' = (pages \ {old}) \cup {new} /\ NotionAnswer(r, "ok", <<new>>)
     \/ NotionRejects(r)
  /\ nNow' = nNow + 1
  /\ notionServiceKept

\* The service applies pages.update of deleteTicket: the page is archived.
\* It rejects the request on a page that is missing or archived, and may
\* reject it on any page.
NotionPagesArchive(r) ==
  /\ r.stage = "sent" /\ r.op = "delete"
  /\ \/ /\ LivePage(r.id)
        /\ pages' = {IF page.id = r.id
                     THEN [page EXCEPT !.archived = TRUE, !.last_edited_time = nNow]
                     ELSE page : page \in pages}
        /\ NotionAnswer(r, "ok", <<>>)
     \/ NotionRejects(r)
  /\ nNow' = nNow + 1
  /\ notionServiceKept

\* What the call returns from the service's answer, at instant t.
NotionResult(r, t) ==
  IF r.op = "search"
  THEN NotionClientFilter(PagesToTickets(r.results, t), r.filters)
  ELSE PagesToTickets(r.results, t)

\* The call goes on after its await: it returns its result, or throws.
NotionReturns(r) ==
  /\ r.stage # "sent"
  /\ nReqs' = nReqs \ {r}
  /\ nLast' = [op |-> r.op, ok |-> r.stage = "ok", alone |-> r.alone,
               filters |-> r.filters, data |-> r.data,
               result |-> IF r.stage = "ok" THEN NotionResult(r, nNow) ELSE <<>>]
  /\ nNow' = nNow + 1
  /\ UNCHANGED <<pages, nToken, nDatabaseId, nCalls>>

----------------------------------------------------------------------------
(* useFeedback (hooks/useFeedback.ts) over the table feedback_requests *)

Platform == {"Intercom", "Discord", "X", "Zoom (Analyst Call)"}

\* A nullable integer column.
NullInt == [null |-> TRUE, n |-> 0]
IntOf(n) == [null |-> FALSE, n |-> n]

\* data.ticket_id ? parseInt(data.ticket_id) : null; NaN is sent as null.
FeedbackTicketId(ticket_id) ==
  IF ticket_id = Undef \/ ticket_id.v = <<>> \/ parseInt(ticket_id.v).nan
  THEN NullInt
  ELSE IntOf(parseInt(ticket_id.v).n)

\* x || null on a text field of the form
TextOrNull(x) == IF x.k = "str" /\ x.v # <<>> THEN x ELSE Null

\* An optional boolean of the form as a column value: undefined is not sent.
BoolColumn(b, old) == IF b = "undefined" THEN old ELSE b

\* The row createFeedback inserts, before the table assigns its id.
CreateFeedbackRow(data, t) ==
  [ticket_id |-> FeedbackTicketId(data.ticket_id),
   platform |-> data.platform,
   product |-> TextOrNull(data.product),
   description |-> TextOrNull(data.description),
   core_team_acknowledgement |-> BoolColumn(data.core_team_acknowledgement, "null"),
   shipped |-> BoolColumn(data.shipped, "null"),
   shipping_date |-> IF data.shipped = "true" /\ data.shipping_date > NoDate
                     THEN data.shipping_date ELSE NoDate,
   created_at |-> IF data.created_at > NoDate THEN MidnightOf(data.created_at) ELSE t]

\* A variant of UpdateFeedbackData that keeps a supplied shipping date
\* whatever shipped is.
UpdateFeedbackDataKeepsDate(updates, t) ==
  [ticket_id |-> FeedbackTicketId(updates.ticket_id),
   platform |-> updates.platform,
   product |-> TextOrNull(updates.product),
   description |-> TextOrNull(updates.description),
   core_team_acknowledgement |-> updates.core_team_acknowledgement,
   shipped |-> updates.shipped,
   shipping_date |-> IF updates.shipping_date > NoDate THEN updates.shipping_date
                     ELSE IF updates.shipped = "true" THEN DayOf(t)
                     ELSE NoDate]

\* updateData of updateFeedback.
UpdateFeedbackData(updates, t) ==
  [ticket_id |-> FeedbackTicketId(updates.ticket_id),
   platform |-> updates.platform,
   product |-> TextOrNull(updates.product),
   description |-> TextOrNull(updates.description),
   core_team_acknowledgement |-> updates.core_team_acknowledgement,
   shipped |-> updates.shipped,
   shipping_date |-> IF updates.shipped = "true"
                     THEN IF updates.shipping_date > NoDate
                          THEN updates.shipping_date ELSE DayOf(t)
                     ELSE NoDate]

\* The columns the update sets: undefined properties are not sent.
ApplyFeedbackUpdate(row, updateData) ==
  [row EXCEPT
     !.ticket_id = updateData.ticket_id,
     !.platform = IF updateData.platform = UndefEnum THEN @ ELSE updateData.platform,
     !.product = updateData.product,
     !.description = updateData.description,
     !.core_team_acknowledgement = BoolColumn(updateData.core_team_acknowledgement, @),
     !.shipped = BoolColumn(updateData.shipped, @),
     !.shipping_date = updateData.shipping_date]

\* x || null on a boolean or integer of a returned row is not applied to the
\* booleans; the ticket id 0 becomes null.
TransformFeedback(item, t) ==
  [id |-> NumberToString(item.id),
   ticket_id |-> IF item.ticket_id.null \/ item.ticket_id.n = 0
                 THEN NullInt ELSE item.ticket_id,
   platform |-> EnumOr(item.platform, "Intercom"),
   product |-> TextOr(item.product, <<>>),
   description |-> TextOr(item.description, <<>>),
   core_team_acknowledgement |-> item.core_team_acknowledgement,
   shipped |-> item.shipped,
   shipping_date |-> DateOr(item.shipping_date, NoDate),
   created_at |-> DateOr(item.created_at, t)]

TransformAllFeedback(rows, t) ==
  [i \in 1..Len(rows) |-> TransformFeedback(rows[i], t)]

\* The local item updateFeedback puts in place of item, from the returned row.
MergeFeedback(item, data) ==
  [item EXCEPT
     !.ticket_id = IF data.ticket_id.null \/ data.ticket_id.n = 0
                   THEN NullInt ELSE data.ticket_id,
     !.platform = EnumOr(data.platform, item.platform),
     !.product = TextOr(data.product, <<>>),
     !.description = TextOr(data.description, <<>>),
     !.core_team_acknowledgement = data.core_team_acknowledgement,
     !.shipped = data.shipped,
     !.shipping_date = DateOr(data.shipping_date, NoDate)]

\* .order('created_at', { ascending: false }) on the feedback table: the
\* orders in which the server may return the rows.
RECURSIVE OrderFeedback(_)
OrderFeedback(rows) ==
  IF rows = {} THEN {<<>>}
  ELSE UNION {{<<first>> \o rest : rest \in OrderFeedback(rows \ {first})} :
              first \in Newest(rows)}

NoFeedbackFilters ==
  [search_query |-> Undef, platform |-> <<>>, product |-> <<>>,
   core_team_acknowledgement |-> "undefined", shipped |-> "undefined",
   start |-> NoDate, end |-> NoDate]

\* Whether the server rejects the query searchFeedback builds.
FeedbackSearchRejected(filters) ==
  /\ filters.search_query # Undef /\ filters.search_query.v # <<>>
  /\ NumberIsNumber(Trim(filters.search_query.v))
  /\ ~IsBigintText(Trim(filters.search_query.v))

\* The text criterion of searchFeedback on a row.
FeedbackSearchText(row, search_query) ==
  LET searchQuery == Trim(search_query)
  IN  \/ ILikeContains(row.description, searchQuery)
      \/ /\ NumberIsNumber(searchQuery)
         /\ IsBigintText(searchQuery)
         /\ ~row.ticket_id.null
         /\ row.ticket_id.n = parseInt(searchQuery).n

\* The server-side part of searchFeedback.
FeedbackSearchQuery(table, filters) ==
  {row \in table :
     /\ Len(filters.platform) > 0 => Includes(filters.platform, row.platform)
     /\ filters.core_team_acknowledgement # "undefined"
          => row.core_team_acknowledgement = filters.core_team_acknowledgement
     /\ filters.shipped # "undefined" => row.shipped = filters.shipped
     /\ (filters.search_query # Undef /\ filters.search_query.v # <<>>)
          => FeedbackSearchText(row, filters.search_query.v)
     /\ filters.start # NoDate
          => row.created_at # NoDate /\ row.created_at >= MidnightOf(filters.start)
     /\ filters.end # NoDate
          => row.created_at # NoDate /\ row.created_at <= MidnightOf(filters.end)}

\* The client-side part of searchFeedback: the product filter.
FeedbackProductFilter(transformedFeedback, filters) ==
  IF Len(filters.product) > 0
  THEN SelectSeq(transformedFeedback,
                 LAMBDA item : Includes(filters.product, item.product))
  ELSE transformedFeedback

NoFeedbackData ==
  [ticket_id |-> Undef, created_at |-> NoDate, platform |-> UndefEnum,
   product |-> Undef, description |-> Undef,
   core_team_acknowledgement |-> "undefined", shipped |-> "undefined",
   shipping_date |-> UndefDate]

FeedbackRequest(op, id, data, ids, filters) ==
  [n |-> fCalls, op |-> op, id |-> id, data |-> data, ids |-> ids,
   filters |-> filters, at |-> fNow, alone |-> fReqs = {},
   solo |-> \A q \in fReqs : q.op \notin Loads,
   stage |-> "sent", rows |-> <<>>]

NoFeedbackLast ==
  [op |-> "none", ok |-> FALSE, alone |-> FALSE, solo |-> FALSE,
   filters |-> NoFeedbackFilters,
   data |-> NoFeedbackData, id |-> <<>>, ids |-> <<>>, at |-> 0, row |-> 0]

FeedbackSend(request) ==
  fReqs' = {[r EXCEPT !.alone = FALSE,
                      !.solo = r.solo /\ request.op \notin Loads] : r \in fReqs}
           \cup {request}

FeedbackErrorMessage(op) ==
  CASE op = "fetch"      -> "Failed to fetch feedback"
    [] op = "search"     -> "Failed to search feedback"
    [] op = "create"     -> "Failed to create feedback"
    [] op = "update"     -> "Failed to update feedback"
    [] op = "delete"     -> "Failed to delete feedback"
    [] op = "bulkDelete" -> "Failed to delete feedback"

\* useEffect(() => { fetchFeedback(); }, [])
FeedbackMount ==
  /\ ~fMounted
  /\ fMounted' = TRUE
  /\ fLoading' = TRUE
  /\ fError' = ""
  /\ FeedbackSend(FeedbackRequest("fetch", <<>>, NoFeedbackData, <<>>, NoFeedbackFilters))
  /\ fNow' = fNow + 1
  /\ UNCHANGED <<fdb, fSerial, feedback, fCalls, fLast>>
  /\ UNCHANGED exceptFeedback

fetchFeedback ==
  /\ fLoading' = TRUE
  /\ fError' = ""
  /\ FeedbackSend(FeedbackRequest("fetch", <<>>, NoFeedbackData, <<>>, NoFeedbackFilters))
  /\ fCalls' = fCalls + 1
  /\ fNow' = fNow + 1
  /\ UNCHANGED <<fdb, fSerial, feedback, fMounted, fLast>>

searchFeedback(filters) ==
  /\ fLoading' = TRUE
  /\ fError' = ""
  /\ FeedbackSend(FeedbackRequest("search", <<>>, NoFeedbackData, <<>>, filters))
  /\ fCalls' = fCalls + 1
  /\ fNow' = fNow + 1
  /\ UNCHANGED <<fdb, fSerial, feedback, fMounted, fLast>>

createFeedback(data) ==
  /\ fError' = ""
  /\ FeedbackSend(FeedbackRequest("create", <<>>, data, <<>>, NoFeedbackFilters))
  /\ fCalls' = fCalls + 1
  /\ fNow' = fNow + 1
  /\ UNCHANGED <<fdb, fSerial, feedback, fLoading, fMounted, fLast>>

updateFeedback(id, updates) ==
  /\ fError' = ""
  /\ FeedbackSend(FeedbackRequest("update", id, updates, <<>>, NoFeedbackFilters))
  /\ fCalls' = fCalls + 1
  /\ fNow' = fNow + 1
  /\ UNCHANGED <<fdb, fSerial, feedback, fLoading, fMounted, fLast>>

deleteFeedback(id) ==
  /\ fError' = ""
  /\ FeedbackSend(FeedbackRequest("delete", id, NoFeedbackData, <<>>, NoFeedbackFilters))
  /\ fCalls' = fCalls + 1
  /\ fNow' = fNow + 1
  /\ UNCHANGED <<fdb, fSerial, feedback, fLoading, fMounted, fLast>>

bulkDeleteFeedback(ids) ==
  /\ fError' = ""
  /\ FeedbackSend(FeedbackRequest("bulkDelete", <<>>, NoFeedbackData, ids,
                                  NoFeedbackFilters))
  /\ fCalls' = fCalls + 1
  /\ fNow' = fNow + 1
  /\ UNCHANGED <<fdb, fSerial, feedback, fLoading, fMounted, fLast>>

FeedbackAnswer(r, stage, rows) ==
  fReqs' = (fReqs \ {r}) \cup {[r EXCEPT !.stage = stage, !.rows = rows]}

\* The request fails (network, policy, server): nothing is changed.
FeedbackFails(r) ==
  /\ r.stage = "sent"
  /\ FeedbackAnswer(r, "error", <<>>)
  /\ fNow' = fNow + 1
  /\ UNCHANGED <<fdb, fSerial, feedback, fLoading, fError, fCalls, fMounted, fLast>>
  /\ UNCHANGED exceptFeedback

FeedbackSelect(r) ==
  /\ r.stage = "sent" /\ r.op = "fetch"
  /\ \E rows \in OrderFeedback(fdb) : FeedbackAnswer(r, "ok", rows)
  /\ fNow' = fNow + 1
  /\ UNCHANGED <<fdb, fSerial, feedback, fLoading, fError, fCalls, fMounted, fLast>>
  /\ UNCHANGED exceptFeedback

FeedbackSearch(r) ==
  /\ r.stage = "sent" /\ r.op = "search"
  /\ IF FeedbackSearchRejected(r.filters)
     THEN FeedbackAnswer(r, "error", <<>>)
     ELSE \E rows \in OrderFeedback(FeedbackSearchQuery(fdb, r.filters)) :
            FeedbackAnswer(r, "ok", rows)
  /\ fNow' = fNow + 1
  /\ UNCHANGED <<fdb, fSerial, feedback, fLoading, fError, fCalls, fMounted, fLast>>
  /\ UNCHANGED exceptFeedback

\* insert([...]).select().single(): the table assigns the id.
FeedbackInsert(r) ==
  /\ r.stage = "sent" /\ r.op = "create"
  /\ LET row == [id |-> fSerial] @@ CreateFeedbackRow(r.data, r.at)
     IN  /\ FeedbackAnswer(r, "ok", <<row>>)
         /\ fdb' = fdb \cup {row}
  /\ fSerial' = fSerial + 1
  /\ fNow' = fNow + 1
  /\ UNCHANGED <<feedback, fLoading, fError, fCalls, fMounted, fLast>>
  /\ UNCHANGED exceptFeedback

\* update(updateData).eq('id', parseInt(id)).select().single(): an error when
\* no row matches.
FeedbackUpdate(r) ==
  /\ r.stage = "sent" /\ r.op = "update"
  /\ LET key == parseInt(r.id).n
     IN  IF ~(\E row \in fdb : row.id = key)
         THEN FeedbackAnswer(r, "error", <<>>) /\ UNCHANGED fdb
         ELSE LET old == CHOOSE row \in fdb : row.id = key
                  new == ApplyFeedbackUpdate(old, UpdateFeedbackData(r.data, r.at))
              IN  FeedbackAnswer(r, "ok", <<new>>) /\ fdb' = (fdb \ {old}) \cup {new}
  /\ fNow' = fNow + 1
  /\ UNCHANGED <<fSerial, feedback, fLoading, fError, fCalls, fMounted, fLast>>
  /\ UNCHANGED exceptFeedback

FeedbackDelete(r) ==
  /\ r.stage = "sent" /\ r.op = "delete"
  /\ FeedbackAnswer(r, "ok", <<>>)
  /\ fdb' = {row \in fdb : row.id # parseInt(r.id).n}
  /\ fNow' = fNow + 1
  /\ UNCHANGED <<fSerial, feedback, fLoading, fError, fCalls, fMounted, fLast>>
  /\ UNCHANGED exceptFeedback

FeedbackBulkDelete(r) ==
  /\ r.stage = "sent" /\ r.op = "bulkDelete"
  /\ FeedbackAnswer(r, "ok", <<>>)
  /\ fdb' = {row \in fdb : row.id \notin NumericIds(r.ids)}
  /\ fNow' = fNow + 1
  /\ UNCHANGED <<fSerial, feedback, fLoading, fError, fCalls, fMounted, fLast>>
  /\ UNCHANGED exceptFeedback

FeedbackCompleted(r) ==
  [op |-> r.op, ok |-> r.stage = "ok", alone |-> r.alone, solo |-> r.solo,
   filters |-> r.filters,
   data |-> r.data, id |-> r.id, ids |-> r.ids, at |-> r.at,
   row |-> IF r.stage = "ok" /\ r.op \in {"create", "update"} THEN r.rows[1].id ELSE 0]

FeedbackHandleError(r) ==
  /\ r.stage = "error"
  /\ fError' = FeedbackErrorMessage(r.op)
  /\ fLoading' = IF r.op \in {"fetch", "search"} THEN FALSE ELSE fLoading
  /\ fReqs' = fReqs \ {r}
  /\ fLast' = FeedbackCompleted(r)
  /\ UNCHANGED <<fdb, fSerial, feedback, fCalls, fNow, fMounted>>
  /\ UNCHANGED besideFeedbackForm

FeedbackHandleFetch(r) ==
  /\ r.stage = "ok" /\ r.op = "fetch"
  /\ feedback' = TransformAllFeedback(r.rows, fNow)
  /\ fLoading' = FALSE
  /\ fReqs' = fReqs \ {r}
  /\ fLast' = FeedbackCompleted(r)
  /\ UNCHANGED <<fdb, fSerial, fError, fCalls, fNow, fMounted>>
  /\ UNCHANGED exceptFeedback

FeedbackHandleSearch(r) ==
  /\ r.stage = "ok" /\ r.op = "search"
  /\ feedback' = FeedbackProductFilter(TransformAllFeedback(r.rows, fNow), r.filters)
  /\ fLoading' = FALSE
  /\ fReqs' = fReqs \ {r}
  /\ fLast' = FeedbackCompleted(r)
  /\ UNCHANGED <<fdb, fSerial, fError, fCalls, fNow, fMounted>>
  /\ UNCHANGED exceptFeedback

FeedbackHandleCreate(r) ==
  /\ r.stage = "ok" /\ r.op = "create"
  /\ feedback' = <<TransformFeedback(r.rows[1], fNow)>> \o feedback
  /\ fReqs' = fReqs \ {r}
  /\ fLast' = FeedbackCompleted(r)
  /\ UNCHANGED <<fdb, fSerial, fLoading, fError, fCalls, fNow, fMounted>>
  /\ UNCHANGED besideFeedbackForm

FeedbackHandleUpdate(r) ==
  /\ r.stage = "ok" /\ r.op = "update"
  /\ feedback' = MapTickets(feedback,
         LAMBDA item : IF item.id = r.id THEN MergeFeedback(item, r.rows[1]) ELSE item)
  /\ fReqs' = fReqs \ {r}
  /\ fLast' = FeedbackCompleted(r)
  /\ UNCHANGED <<fdb, fSerial, fLoading, fError, fCalls, fNow, fMounted>>
  /\ UNCHANGED besideFeedbackForm

FeedbackHandleDelete(r) ==
  /\ r.stage = "ok" /\ r.op = "delete"
  /\ feedback' = SelectSeq(feedback, LAMBDA item : item.id # r.id)
  /\ fReqs' = fReqs \ {r}
  /\ fLast' = FeedbackCompleted(r)
  /\ UNCHANGED <<fdb, fSerial, fLoading, fError, fCalls, fNow, fMounted>>
  /\ UNCHANGED exceptFeedback

FeedbackHandleBulkDelete(r) ==
  /\ r.stage = "ok" /\ r.op = "bulkDelete"
  /\ feedback' = SelectSeq(feedback, LAMBDA item : ~IdIn(r.ids, item.id))
  /\ fReqs' = fReqs \ {r}
  /\ fLast' = FeedbackCompleted(r)
  /\ UNCHANGED <<fdb, fSerial, fLoading, fError, fCalls, fNow, fMounted>>
  /\ UNCHANGED exceptFeedback

\* What the App does once createFeedback or updateFeedback has returned:
\* handleCreateFeedback and handleUpdateFeedback close their form when the
\* call succeeded and swallow its failure, so that onSave never rejects;
\* handleSubmit of the form that made the call then goes on with its
\* onCancel(), setShowFeedbackForm(false) for a form that creates and
\* setEditingFeedback(null) for a form that edits.  That closes the form of
\* this kind that is rendered now; a form no longer rendered has lost its
\* state.
FeedbackAfterSave(r) ==
  LET unmounts == IF r.op = "create" THEN showFeedbackForm ELSE editingFeedback # <<>>
  IN  /\ showFeedbackForm' = IF r.op = "create" THEN FALSE ELSE showFeedbackForm
      /\ editingFeedback' = IF r.op = "update" THEN <<>> ELSE editingFeedback
      /\ feedbackFormData' = IF unmounts THEN NoFeedbackData ELSE feedbackFormData
      /\ feedbackSubmitting' = IF unmounts THEN FALSE ELSE feedbackSubmitting
      /\ feedbackFormErrors' = IF unmounts THEN {} ELSE feedbackFormErrors
      /\ UNCHANGED renderThrew

\* The other handlers of the App do nothing to the forms after their await.
FeedbackAfterAwait(r) ==
  IF r.op \in {"create", "update"} THEN FeedbackAfterSave(r)
  ELSE UNCHANGED feedbackFormVars

\* App.handleFeedbackSearch, App.handleClearFeedbackSearch and
\* App.handleDeleteFeedback with confirm() answered with OK, up to the await
\* of the hook's call.
handleFeedbackSearch(filters) ==
  /\ searchFeedback(filters)
  /\ UNCHANGED besideFeedbackForm /\ UNCHANGED feedbackFormVars
handleClearFeedbackSearch ==
  /\ fetchFeedback
  /\ UNCHANGED besideFeedbackForm /\ UNCHANGED feedbackFormVars
handleDeleteFeedback(id) ==
  /\ deleteFeedback(id)
  /\ UNCHANGED besideFeedbackForm /\ UNCHANGED feedbackFormVars

----------------------------------------------------------------------------
(* Specification SpecPure: the pure helpers applied to bounded inputs *)

JsonChars == {"[", "]", Quote, ",", " ", "a", "1", Backslash}
TagChars == {"a", " ", Quote, Backslash, ",", NoBreakSpace}
IdChars == {"a", "z", " ", "1"}

RECURSIVE ListsUpTo(_, _)
ListsUpTo(S, n) ==
  IF n = 0 THEN {<<>>}
  ELSE LET shorter == ListsUpTo(S, n - 1)
       IN  shorter \cup {<<x>> \o l : x \in S, l \in shorter}

TagLists == ListsUpTo(SeqsUpTo(TagChars, MaxTagLen), MaxTags)

\* Legacy column values: any short text, some longer texts, arrays.
LegacyTexts ==
  SeqsUpTo(JsonChars, MaxLen) \cup
  { <<"t", "r", "u", "e">>, <<"n", "u", "l", "l">>, <<"{", "}">>,
    <<"-", "1", ".", "5", "e", "2">>, <<" ", "d", "e", "f", "i", " ">>,
    <<"{", Quote, "a", Quote, ":", "[", "1", "]", "}">>,
    <<"[", Quote, "a", Quote, ",", " ", Quote, " ", Quote, ",", "1", "]">>,
    <<Quote, Backslash, "n", "a", Quote>>,
    <<Quote, Backslash, "u", "0", "0", "4", "1", Quote>>,
    <<Quote, Backslash, "b", Quote>>, <<Quote, Backslash, "f", Quote>>,
    <<Quote, Backslash, "u", "0", "0", "a", "0", Quote>>,
    <<Quote, NoBreakSpace, "a", Quote>>,
    <<ByteOrderMark, "a", "U+2003">>, <<NoBreakSpace>> }
LegacyItems ==
  {Str(<<"a">>), Str(<<" ", "b">>), Str(<<" ">>), Str(<<>>), Str(<<NoBreakSpace>>),
   Num(<<"1">>)}
\* Column values that are neither null, nor text, nor an array.
LegacyOthers == {Num(<<"1">>), Num(<<"0">>), Lit(<<"t", "r", "u", "e">>), Obj(<<>>)}
LegacyValues ==
  {Null} \cup {Str(s) : s \in LegacyTexts}
         \cup {Arr(l) : l \in ListsUpTo(LegacyItems, MaxTags)}
         \cup LegacyOthers

Identifiers == SeqsUpTo(IdChars, MaxHashLen)
\* Identifiers written as decimal numbers.
DecimalChars == {"1", "2", "."}
DecimalIdentifiers == SeqsUpTo(DecimalChars, MaxDecimalLen)

\* No column value under consideration / no identifier under consideration.
CodecIdle ==
  /\ cOrigin = "none" /\ cTags = <<>> /\ cStored = Null
  /\ cDone = FALSE /\ cDecoded = <<>>
HashIdle ==
  /\ hIn = <<>> /\ hDone = FALSE
  /\ hCreate = [nan |-> FALSE, id |-> Wide(0)]
  /\ hUpdate = [nan |-> FALSE, id |-> Wide(0)]

\* One helper input is under consideration: a tag list about to be written,
\* a column value written by an earlier version of the program, or a
\* non-blank identifier typed by the user.
PureInit ==
  \/ /\ cOrigin = "tags" /\ cTags \in TagLists /\ cStored = Null
     /\ cDone = FALSE /\ cDecoded = <<>>
     /\ HashIdle
  \/ /\ cOrigin = "legacy" /\ cTags = <<>> /\ cStored \in LegacyValues
     /\ cDone = FALSE /\ cDecoded = <<>>
     /\ HashIdle
  \/ /\ CodecIdle
     /\ hIn \in {s \in Identifiers \cup DecimalIdentifiers : Trim(s) # <<>>}
     /\ hDone = FALSE
     /\ hCreate = [nan |-> FALSE, id |-> Wide(0)]
     /\ hUpdate = [nan |-> FALSE, id |-> Wide(0)]

\* A write path encodes the tag list into the column.
Encode ==
  /\ cOrigin = "tags"
  /\ cOrigin' = "encoded"
  /\ cStored' = safeJsonStringify(cTags)
  /\ UNCHANGED <<cTags, cDone, cDecoded, hIn, hDone, hCreate, hUpdate>>
  /\ UNCHANGED exceptPure

\* A read path decodes the column.
Decode ==
  /\ cOrigin \in {"encoded", "legacy"}
  /\ ~cDone
  /\ cDone' = TRUE
  /\ cDecoded' = safeJsonParse(cStored)
  /\ UNCHANGED <<cOrigin, cTags, cStored, hIn, hDone, hCreate, hUpdate>>
  /\ UNCHANGED exceptPure

\* createTicket and updateTicket convert the identifier.
ConvertId ==
  /\ Trim(hIn) # <<>>
  /\ ~hDone
  /\ hDone' = TRUE
  /\ hCreate' = CreateTicketId(hIn)
  /\ hUpdate' = UpdateTicketId(hIn)
  /\ UNCHANGED <<cOrigin, cTags, cStored, cDone, cDecoded, hIn>>
  /\ UNCHANGED exceptPure

PureNext == Encode \/ Decode \/ ConvertId

----------------------------------------------------------------------------
(* Specification SpecNotion: one client of the Notion database *)

RandomSuffixes == {<<"A", "1", "B", "2">>, <<"Z", "Z", "Z", "Z">>}

SeedPage(id, data, t) ==
  [id |-> id, archived |-> FALSE, created_time |-> t, last_edited_time |-> t,
   properties |-> ticketToNotionProperties(data, Str(NotionTicketId(t, <<"S", "E", "E", "D">>)), t)]

Page1 ==
  SeedPage(1, Form(<<>>, "Resolved", <<"c">>, <<"a", "b">>, <<"x">>, <<<<"p">>>>, <<>>,
                   "SEV-1"), 1)
Page2 ==
  SeedPage(2, Form(<<>>, "In Dev", <<>>, <<"B">>, <<"y">>, <<<<"p">>>>, <<<<"k">>>>,
                   "SEV-3"), MidnightOf(1))
Page3 ==
  SeedPage(3, Form(<<>>, "Not Started", <<>>, <<"t", "k">>, <<"z">>, <<>>, <<<<"k">>>>,
                   "SEV-2"), MidnightOf(1) + 1)

InitialPages == {{Page1, Page2}, {Page1, Page2, Page3}}

NotionFilters ==
  CriteriaFilters \cup
  { Filter(Str(<<"B">>), <<>>, <<>>, <<>>, <<>>, NoDate, NoDate),
    Filter(Str(<<"T", "K">>), <<"In Dev", "Resolved">>, <<>>, <<>>, <<>>, NoDate, NoDate) }

\* The updates of updateTicket: complete form data, or a status alone.
NotionUpdates == TicketForms \cup {[NoData EXCEPT !.status = "Resolved"]}

NotionInit ==
  /\ pages \in InitialPages
  /\ nToken \in BOOLEAN
  /\ nDatabaseId \in BOOLEAN
  /\ nCalls = 0
  /\ nNow = StartInstant
  /\ nReqs = {}
  /\ nLast = NoNotionCall

NotionReady == nCalls < MaxCalls

CallCreateTicket(data, suffix) ==
  NotionReady /\ NotionCreateTicket(data, suffix) /\ UNCHANGED exceptNotion
CallGetTickets == NotionReady /\ NotionGetTickets /\ UNCHANGED exceptNotion
CallUpdateTicket(id, updates) ==
  NotionReady /\ NotionUpdateTicket(id, updates) /\ UNCHANGED exceptNotion
CallDeleteTicket(id) == NotionReady /\ NotionDeleteTicket(id) /\ UNCHANGED exceptNotion
CallSearchTickets(filters) ==
  NotionReady /\ NotionSearchTickets(filters) /\ UNCHANGED exceptNotion

NotionNext ==
  \/ \E data \in TicketForms, suffix \in RandomSuffixes : CallCreateTicket(data, suffix)
  \/ CallGetTickets
  \/ \E page \in pages, updates \in NotionUpdates : CallUpdateTicket(page.id, updates)
  \/ \E page \in pages : CallDeleteTicket(page.id)
  \/ \E filters \in NotionFilters : CallSearchTickets(filters)
  \/ \E r \in nReqs : NotionPagesCreate(r) /\ UNCHANGED exceptNotion
  \/ \E r \in nReqs : NotionDatabasesQuery(r) /\ UNCHANGED exceptNotion
  \/ \E r \in nReqs : NotionPagesUpdate(r) /\ UNCHANGED exceptNotion
  \/ \E r \in nReqs : NotionPagesArchive(r) /\ UNCHANGED exceptNotion
  \/ \E r \in nReqs : NotionReturns(r) /\ UNCHANGED exceptNotion

----------------------------------------------------------------------------
(* Specification SpecFeedback: one client of the table feedback_requests *)

FeedbackForm(ticket_id, created_at, platform, product, description, acknowledged,
             shipped, shipping_date) ==
  [ticket_id |-> Str(ticket_id), created_at |-> created_at, platform |-> platform,
   product |-> Str(product), description |-> Str(description),
   core_team_acknowledgement |-> acknowledged, shipped |-> shipped,
   shipping_date |-> shipping_date]

\* What createFeedback and updateFeedback are given: shipped set with a
\* date, shipped set with no date, shipped false with no date, shipped unset
\* with a date, shipped false with a date.
FeedbackForms ==
  { FeedbackForm(<<"7">>, 1, "Intercom", <<"p">>, <<"a", "b">>, "true", "true", 1),
    FeedbackForm(<<"8">>, 2, "Intercom", <<"q">>, <<"B">>, "undefined", "true", NoDate),
    FeedbackForm(<<>>, 1, "Discord", <<>>, <<"c">>, "false", "false", NoDate),
    FeedbackForm(<<"x">>, 2, "X", <<"p">>, <<>>, "true", "undefined", 1),
    FeedbackForm(<<"9">>, 2, "Zoom (Analyst Call)", <<>>, <<"d">>, "true", "false", 1) }

FeedbackRow1 ==
  [id |-> 1, ticket_id |-> IntOf(7), platform |-> "Intercom", product |-> Str(<<"p">>),
   description |-> Str(<<"a", "b">>), core_team_acknowledgement |-> "true",
   shipped |-> "true", shipping_date |-> 1, created_at |-> MidnightOf(1)]
FeedbackRow2 ==
  [id |-> 2, ticket_id |-> NullInt, platform |-> "Discord", product |-> Null,
   description |-> Str(<<"7">>), core_team_acknowledgement |-> "null",
   shipped |-> "null", shipping_date |-> NoDate, created_at |-> MidnightOf(1) + 1]

InitialFeedback == {{FeedbackRow1}, {FeedbackRow1, FeedbackRow2}}

FeedbackFilter(search_query, platform, product, acknowledged, shipped, start, end) ==
  [search_query |-> search_query, platform |-> platform, product |-> product,
   core_team_acknowledgement |-> acknowledged, shipped |-> shipped,
   start |-> start, end |-> end]

FeedbackFilters ==
  { NoFeedbackFilters,
    FeedbackFilter(Undef, <<"Intercom", "X">>, <<>>, "undefined", "true", NoDate, NoDate),
    FeedbackFilter(Undef, <<>>, <<<<"p">>>>, "true", "undefined", 1, 2),
    FeedbackFilter(Str(<<"7">>), <<>>, <<>>, "undefined", "undefined", NoDate, NoDate),
    FeedbackFilter(Str(<<" ", "A">>), <<>>, <<>>, "undefined", "undefined", NoDate, NoDate),
    FeedbackFilter(Str(<<" ">>), <<>>, <<>>, "undefined", "undefined", NoDate, NoDate) }

FeedbackIds == [i \in 1..Len(feedback) |-> feedback[i].id]
FeedbackSelections ==
  {<<FeedbackIds[i]>> : i \in 1..Len(feedback)} \cup ({FeedbackIds} \ {<<>>})

FeedbackInit ==
  /\ fdb \in InitialFeedback
  /\ fSerial = 3
  /\ feedback = <<>>
  /\ fLoading = FALSE
  /\ fError = ""
  /\ fReqs = {}
  /\ fCalls = 0
  /\ fNow = StartInstant
  /\ fMounted = FALSE
  /\ fLast = NoFeedbackLast

\* The user makes a call, having waited for the previous one to complete.
FeedbackReady == fMounted /\ fReqs = {} /\ fCalls < MaxCalls

UserFetchFeedback == FeedbackReady /\ fetchFeedback /\ UNCHANGED exceptFeedback
UserSearchFeedback(filters) ==
  FeedbackReady /\ searchFeedback(filters) /\ UNCHANGED exceptFeedback
UserCreateFeedback(data) ==
  FeedbackReady /\ createFeedback(data) /\ UNCHANGED exceptFeedback
UserUpdateFeedback(id, updates) ==
  FeedbackReady /\ updateFeedback(id, updates) /\ UNCHANGED exceptFeedback
UserDeleteFeedback(id) ==
  FeedbackReady /\ deleteFeedback(id) /\ UNCHANGED exceptFeedback
UserBulkDeleteFeedback(ids) ==
  FeedbackReady /\ bulkDeleteFeedback(ids) /\ UNCHANGED exceptFeedback

FeedbackUserCall ==
  \/ UserFetchFeedback
  \/ \E filters \in FeedbackFilters : UserSearchFeedback(filters)
  \/ \E data \in FeedbackForms : UserCreateFeedback(data)
  \/ \E i \in 1..Len(feedback), updates \in FeedbackForms :
       UserUpdateFeedback(feedback[i].id, updates)
  \/ \E i \in 1..Len(feedback) : UserDeleteFeedback(feedback[i].id)
  \/ \E ids \in FeedbackSelections : UserBulkDeleteFeedback(ids)

FeedbackSupabase ==
  \/ \E r \in fReqs : FeedbackFails(r)
  \/ \E r \in fReqs : FeedbackSelect(r)
  \/ \E r \in fReqs : FeedbackSearch(r)
  \/ \E r \in fReqs : FeedbackInsert(r)
  \/ \E r \in fReqs : FeedbackUpdate(r)
  \/ \E r \in fReqs : FeedbackDelete(r)
  \/ \E r \in fReqs : FeedbackBulkDelete(r)

FeedbackHandle ==
  \/ \E r \in fReqs : FeedbackHandleError(r) /\ FeedbackAfterAwait(r)
  \/ \E r \in fReqs : FeedbackHandleFetch(r)
  \/ \E r \in fReqs : FeedbackHandleSearch(r)
  \/ \E r \in fReqs : FeedbackHandleCreate(r) /\ FeedbackAfterAwait(r)
  \/ \E r \in fReqs : FeedbackHandleUpdate(r) /\ FeedbackAfterAwait(r)
  \/ \E r \in fReqs : FeedbackHandleDelete(r)
  \/ \E r \in fReqs : FeedbackHandleBulkDelete(r)

FeedbackNext ==
  \/ FeedbackMount
  \/ FeedbackUserCall
  \/ FeedbackSupabase
  \/ FeedbackHandle

----------------------------------------------------------------------------
(* Specification SpecHooks: the two hooks of the App, one used at a time *)

\* The user calls one hook while the other, its list loaded or its mount
\* effect's fetch failed, has been left alone.
FeedbackQuiet == fMounted /\ fReqs = {} /\ fCalls = 0
TicketsQuiet == mounted /\ reqs = {} /\ calls = 0

HooksNext ==
  \/ MountTickets
  \/ mounted /\ FeedbackMount
  \/ FeedbackQuiet /\ UserCall
  \/ TicketsQuiet /\ FeedbackUserCall
  \/ Supabase
  \/ Handle
  \/ FeedbackSupabase
  \/ FeedbackHandle

----------------------------------------------------------------------------
(* The settings provider (contexts/SettingsContext.tsx) and its storage *)

\* localStorage with none of the provider's keys; "" stands for an absent key.
NoStorage == [data_source |-> "", notion_token |-> "", notion_database_id |-> ""]
\* useState({ token: '', databaseId: '' })
NoNotionConfig == [token |-> "", databaseId |-> ""]
\* useState<DataSource>('supabase')
DefaultDataSource == "supabase"

\* A variant of LoadedDataSource that ignores the saved value.
LoadedDefault(saved, current) == current

\* The load effect: what it makes of the saved values.
LoadedDataSource(saved, current) == IF saved # "" THEN saved ELSE current
LoadedNotionConfig(store, current) ==
  IF store.notion_token # "" \/ store.notion_database_id # ""
  THEN [token |-> store.notion_token, databaseId |-> store.notion_database_id]
  ELSE current

\* The persist effects: what storage holds once they ran with these values.
PersistDataSource(store, source) == [store EXCEPT !.data_source = source]
PersistNotionConfig(store, config) ==
  [store EXCEPT
     !.notion_token = IF config.token # "" THEN config.token ELSE @,
     !.notion_database_id = IF config.databaseId # "" THEN config.databaseId ELSE @]

\* getNotionCredentials() after a write of the key: a value is there when the
\* key is stored, and where one was there before it still is.
HasCredential(stored, had) == stored # "" \/ had

\* The provider mounts: the first render has the defaults; its effects run in
\* the order they are declared.  The load effect reads storage and sets the
\* state for the next render; the persist effects write the values of the
\* first render.
SettingsMount ==
  /\ ~sMounted
  /\ sMounted' = TRUE
  /\ sSaved' = storage.data_source
  /\ dataSource' = LoadedDataSource(storage.data_source, dataSource)
  /\ notionConfig' = LoadedNotionConfig(storage, notionConfig)
  /\ storage' = PersistNotionConfig(PersistDataSource(storage, dataSource), notionConfig)
  /\ nToken' = HasCredential(storage'.notion_token, nToken)
  /\ nDatabaseId' = HasCredential(storage'.notion_database_id, nDatabaseId)
  /\ sPersisted' = dataSource
  /\ sConfigSaved' = notionConfig
  /\ UNCHANGED sChosen
  /\ UNCHANGED exceptSettings

\* useEffect(() => { localStorage.setItem('data_source', dataSource) }, [dataSource])
\* after a render in which dataSource has changed.
DataSourceEffect ==
  /\ sMounted /\ sPersisted # dataSource
  /\ storage' = PersistDataSource(storage, dataSource)
  /\ sPersisted' = dataSource
  /\ UNCHANGED <<dataSource, notionConfig, sMounted, sConfigSaved, sSaved, sChosen>>
  /\ UNCHANGED <<nToken, nDatabaseId>>
  /\ UNCHANGED exceptSettings

\* The effect on [notionConfig], after a render in which it has changed: the
\* keys it writes are the ones the Notion service reads at its next call.
NotionConfigEffect ==
  /\ sMounted /\ sConfigSaved # notionConfig
  /\ storage' = PersistNotionConfig(storage, notionConfig)
  /\ nToken' = HasCredential(storage'.notion_token, nToken)
  /\ nDatabaseId' = HasCredential(storage'.notion_database_id, nDatabaseId)
  /\ sConfigSaved' = notionConfig
  /\ UNCHANGED <<dataSource, notionConfig, sMounted, sPersisted, sSaved, sChosen>>
  /\ UNCHANGED exceptSettings

\* Settings: the data-source select, in a mounted provider.
ChooseDataSource(source) ==
  /\ sMounted
  /\ setDataSource(source)
  /\ sChosen' = source
  /\ UNCHANGED <<storage, notionConfig, sMounted, sPersisted, sConfigSaved, sSaved>>
  /\ UNCHANGED <<pureVars, notionVars, feedbackVars, appVars>>

\* Settings.handleNotionConfigChange(field, value), of the two inputs that
\* Settings renders while dataSource === 'notion'
handleNotionConfigChange(field, value) ==
  /\ sMounted
  /\ dataSource = "notion"
  /\ notionConfig[field] # value
  /\ notionConfig' = [notionConfig EXCEPT ![field] = value]
  /\ UNCHANGED <<dataSource, storage, sMounted, sPersisted, sConfigSaved, sSaved, sChosen>>
  /\ UNCHANGED <<nToken, nDatabaseId>>
  /\ UNCHANGED exceptSettings

\* The page is reloaded: the state in memory is gone, storage stays.
SettingsReload ==
  /\ sMounted
  /\ sMounted' = FALSE
  /\ dataSource' = DefaultDataSource
  /\ notionConfig' = NoNotionConfig
  /\ sPersisted' = "" /\ sConfigSaved' = NoNotionConfig
  /\ sSaved' = "" /\ sChosen' = ""
  /\ UNCHANGED storage
  /\ UNCHANGED <<nToken, nDatabaseId>>
  /\ UNCHANGED exceptSettings

----------------------------------------------------------------------------
(* Specification SpecSettings: the provider, its storage, reloads *)

StoredSources == {"", "notion", "supabase"}
ConfigValues == {"", "s"}

SettingsInit ==
  /\ storage \in [data_source : StoredSources, notion_token : ConfigValues,
                   notion_database_id : ConfigValues]
  /\ dataSource = DefaultDataSource
  /\ notionConfig = NoNotionConfig
  /\ sMounted = FALSE
  /\ sPersisted = "" /\ sConfigSaved = NoNotionConfig
  /\ sSaved = "" /\ sChosen = ""

SettingsNext ==
  \/ SettingsMount
  \/ DataSourceEffect
  \/ NotionConfigEffect
  \/ \E source \in DataSources : ChooseDataSource(source)
  \/ \E field \in {"token", "databaseId"}, value \in ConfigValues :
       handleNotionConfigChange(field, value)
  \/ SettingsReload

----------------------------------------------------------------------------
(* Specification SpecPartial: both hooks called with partial updates *)

\* Updates objects that leave properties out.
PartialUpdates ==
  { [NoData EXCEPT !.status = "In Dev"],
    [NoData EXCEPT !.core_team_comments = Str(<<"n">>)],
    [NoData EXCEPT !.severity = "SEV-1", !.product_tags = Tags(<<<<"q">>>>)] }
PartialFeedbackUpdates ==
  { [NoFeedbackData EXCEPT !.shipped = "true"],
    [NoFeedbackData EXCEPT !.description = Str(<<"n">>)],
    [NoFeedbackData EXCEPT !.platform = "X", !.core_team_acknowledgement = "false"] }

PartialUpdateTicket(id, updates) ==
  /\ mounted /\ reqs = {} /\ calls < MaxPartialCalls
  /\ updateTicket(id, updates)
  /\ UNCHANGED appVars
  /\ UNCHANGED exceptTickets

PartialUpdateFeedback(id, updates) ==
  /\ fMounted /\ fReqs = {} /\ fCalls < MaxPartialCalls
  /\ updateFeedback(id, updates)
  /\ UNCHANGED exceptFeedback

PartialInit == TicketInit /\ FeedbackInit

PartialNext ==
  \/ MountTickets
  \/ \E i \in 1..Len(tickets), updates \in PartialUpdates :
       PartialUpdateTicket(tickets[i].id, updates)
  \/ \E r \in reqs : SupabaseFails(r) /\ UNCHANGED appVars
  \/ \E r \in reqs : SupabaseSelect(r) /\ UNCHANGED appVars
  \/ \E r \in reqs : SupabaseUpdate(r) /\ UNCHANGED appVars
  \/ \E r \in reqs : HandleError(r) /\ AfterAwait(r)
  \/ \E r \in reqs : HandleFetch(r) /\ AfterAwait(r)
  \/ \E r \in reqs : HandleUpdate(r) /\ AfterAwait(r)
  \/ FeedbackMount
  \/ \E i \in 1..Len(feedback), updates \in PartialFeedbackUpdates :
       PartialUpdateFeedback(feedback[i].id, updates)
  \/ \E r \in fReqs : FeedbackFails(r)
  \/ \E r \in fReqs : FeedbackSelect(r)
  \/ \E r \in fReqs : FeedbackUpdate(r)
  \/ \E r \in fReqs : FeedbackHandleError(r) /\ FeedbackAfterAwait(r)
  \/ \E r \in fReqs : FeedbackHandleFetch(r)
  \/ \E r \in fReqs : FeedbackHandleUpdate(r) /\ FeedbackAfterAwait(r)

----------------------------------------------------------------------------
(* Specification SpecClients: this client idle, another client committing *)

\* A ticket another client creates.
OtherRow ==
  [ticket_id |-> 5, status |-> "In QA", issue_description |-> Str(<<"o">>),
   core_team_comment |-> Null, wallet_address_safe_email |-> Str(<<"w">>),
   product |-> Null, category |-> Null, severity |-> "SEV-2",
   date_of_resolved |-> NoDate, created_at |-> StartInstant]

\* Another client inserts a ticket: the table changes, nothing else does.
OtherClientInserts ==
  /\ ~HasRow(db, OtherRow.ticket_id)
  /\ db' = db \cup {OtherRow}
  /\ UNCHANGED <<tickets, loading, error, reqs, calls, now, dataSource, mounted, last>>
  /\ UNCHANGED appVars
  /\ UNCHANGED exceptTickets

\* Another client resolves a ticket.
OtherClientResolves(row) ==
  /\ row.status # "Resolved"
  /\ db' = (db \ {row}) \cup
             {[row EXCEPT !.status = "Resolved", !.date_of_resolved = DayOf(now)]}
  /\ UNCHANGED <<tickets, loading, error, reqs, calls, now, dataSource, mounted, last>>
  /\ UNCHANGED appVars
  /\ UNCHANGED exceptTickets

\* What this client does with no user action: the mount effect's fetch, which
\* the backend answers.
ClientSteps ==
  \/ MountTickets
  \/ \E r \in reqs : SupabaseSelect(r) /\ UNCHANGED appVars
  \/ \E r \in reqs : HandleFetch(r) /\ AfterAwait(r)

ClientsNext ==
  \/ ClientSteps
  \/ OtherClientInserts
  \/ \E row \in db : OtherClientResolves(row)

----------------------------------------------------------------------------
(* Specification SpecOverlap: calls made while others are still in flight *)

\* The user does not wait for the previous call to complete.
Impatient == mounted /\ calls < MaxCalls

OverlapFilters ==
  { Filter(Undef, <<"Resolved", "In Dev">>, <<>>, <<>>, <<>>, NoDate, NoDate) }
OverlapForms ==
  { Form(<<"3">>, "Resolved", <<>>, <<"a", "b">>, <<"x">>, <<<<"p">>>>, <<>>, "SEV-2") }

OverlapCalls ==
  \/ Impatient /\ OnPage /\ handleClearSearch /\ SearchTabKept
  \/ \E filters \in OverlapFilters :
       Impatient /\ OnPage /\ handleSearch(filters) /\ SearchTabKept
  \/ \E data \in OverlapForms :
       Impatient /\ OnPage /\ handleCreateTicket(data) /\ FormKept /\ SearchTabKept
  \/ \E i \in 1..Len(tickets) : Impatient /\ OnPage /\ handleEditTicket(tickets[i])
  \/ Impatient /\ editingTicket # <<>> /\ TicketFormSubmit
  \/ editingTicket # <<>> /\ TicketFormCancel
  \/ \E i \in 1..Len(tickets) :
       Impatient /\ OnPage /\ handleDeleteTicket(tickets[i].id) /\ SearchTabKept

\* The backend answers every request, in any order.
OverlapAnswers ==
  \/ \E r \in reqs : SupabaseFails(r) /\ UNCHANGED appVars
  \/ \E r \in reqs : SupabaseSelect(r) /\ UNCHANGED appVars
  \/ \E r \in reqs : SupabaseSearch(r) /\ UNCHANGED appVars
  \/ \E r \in reqs : SupabaseInsert(r) /\ UNCHANGED appVars
  \/ \E r \in reqs : SupabaseUpdate(r) /\ UNCHANGED appVars
  \/ \E r \in reqs : SupabaseDelete(r) /\ UNCHANGED appVars

\* The hook resumes every answered call, in any order.
OverlapResumes ==
  \/ \E r \in reqs : HandleError(r) /\ AfterAwait(r)
  \/ \E r \in reqs : HandleFetch(r) /\ AfterAwait(r)
  \/ \E r \in reqs : HandleSearch(r) /\ AfterAwait(r)
  \/ \E r \in reqs : HandleCreate(r) /\ AfterAwait(r)
  \/ \E r \in reqs : HandleUpdate(r) /\ AfterAwait(r)
  \/ \E r \in reqs : HandleDelete(r) /\ AfterAwait(r)

OverlapNext == MountTickets \/ OverlapCalls \/ OverlapAnswers \/ OverlapResumes

----------------------------------------------------------------------------
(* Specification SpecLoading: fetches and searches, overlapping or not,   *)
(* among deletions, with a backend that answers                           *)

\* The user makes a first call on a hook once both lists have loaded, and
\* a later one whether or not the earlier ones were answered, while the
\* other hook has nothing in flight.
Eager ==
  /\ mounted /\ fMounted /\ fReqs = {} /\ (reqs = {} \/ calls > 0)
  /\ calls + fCalls < MaxLoadingCalls
FeedbackEager ==
  /\ mounted /\ fMounted /\ reqs = {} /\ (fReqs = {} \/ fCalls > 0)
  /\ calls + fCalls < MaxLoadingCalls

LoadingFeedbackFilters ==
  { FeedbackFilter(Undef, <<"Intercom", "X">>, <<>>, "undefined", "true", NoDate, NoDate) }

LoadingCalls ==
  \/ Eager /\ handleClearSearch /\ SearchTabKept
  \/ \E filters \in OverlapFilters : Eager /\ handleSearch(filters) /\ SearchTabKept
  \/ \E i \in {1} \cap DOMAIN tickets :
       Eager /\ handleDeleteTicket(tickets[i].id) /\ SearchTabKept
  \/ FeedbackEager /\ handleClearFeedbackSearch
  \/ \E filters \in LoadingFeedbackFilters :
       FeedbackEager /\ handleFeedbackSearch(filters)
  \/ \E i \in {1} \cap DOMAIN feedback :
       FeedbackEager /\ handleDeleteFeedback(feedback[i].id)

\* What happens with no user action: the mount effect, the backend's answers
\* and the resumption of the answered calls.
LoadingSteps ==
  \/ MountTickets
  \/ \E r \in reqs : SupabaseFails(r) /\ UNCHANGED appVars
  \/ \E r \in reqs : SupabaseSelect(r) /\ UNCHANGED appVars
  \/ \E r \in reqs : SupabaseSearch(r) /\ UNCHANGED appVars
  \/ \E r \in reqs : SupabaseDelete(r) /\ UNCHANGED appVars
  \/ \E r \in reqs : HandleError(r) /\ AfterAwait(r)
  \/ \E r \in reqs : HandleFetch(r) /\ AfterAwait(r)
  \/ \E r \in reqs : HandleSearch(r) /\ AfterAwait(r)
  \/ \E r \in reqs : HandleDelete(r) /\ AfterAwait(r)
  \/ mounted /\ FeedbackMount
  \/ \E r \in fReqs : FeedbackFails(r)
  \/ \E r \in fReqs : FeedbackSelect(r)
  \/ \E r \in fReqs : FeedbackSearch(r)
  \/ \E r \in fReqs : FeedbackDelete(r)
  \/ \E r \in fReqs : FeedbackHandleError(r) /\ FeedbackAfterAwait(r)
  \/ \E r \in fReqs : FeedbackHandleFetch(r)
  \/ \E r \in fReqs : FeedbackHandleSearch(r)
  \/ \E r \in fReqs : FeedbackHandleDelete(r)

LoadingNext == LoadingCalls \/ LoadingSteps

----------------------------------------------------------------------------
(* FeedbackForm (components/FeedbackForm.tsx), its onSave as given by the App *)

\* useState<FeedbackFormData>({ ticket_id: '', created_at: today,
\* platform: 'Intercom', ... }) at instant t
EmptyFeedbackForm(t) ==
  FeedbackForm(<<>>, DayOf(t), "Intercom", <<>>, <<>>, "undefined", "undefined",
               NoDate)

\* A variant of FeedbackFormErrors that wants a ticket ID on no platform.
FeedbackFormErrorsNoTicketId(data) ==
  {field \in {"platform"} : data.platform = UndefEnum}
  \cup {field \in {"created_at"} : data.created_at = NoDate}

\* validateForm: the fields with an error.
FeedbackFormErrors(data) ==
  {field \in {"platform"} : data.platform = UndefEnum}
  \cup {field \in {"ticket_id"} :
          data.platform = "Intercom" /\ BlankField(data.ticket_id)}
  \cup {field \in {"created_at"} : data.created_at = NoDate}

\* The effect on [formData.shipped]: a shipped item gets today's date when it
\* has none, an item not shipped loses its date.
ShippedEffect(data, t) ==
  IF data.shipped = "true" /\ data.shipping_date = NoDate
  THEN [data EXCEPT !.shipping_date = DayOf(t)]
  ELSE IF data.shipped = "false" THEN [data EXCEPT !.shipping_date = NoDate]
  ELSE data

feedbackAppKept ==
  /\ UNCHANGED <<isSearchMode, userActions, anyFailed, activeTab>>
  /\ UNCHANGED feedbackGalleryVars
  /\ UNCHANGED formVars
  /\ UNCHANGED searchTabVars
  /\ UNCHANGED <<ticketVars, pureVars, notionVars, feedbackVars, settingsVars>>

FeedbackFormRendered == showFeedbackForm \/ editingFeedback # <<>>

\* The form's effect on [feedback]: the fields of the item being edited, and
\* then the effect on shipped where that has changed the value of shipped.
FeedbackFormOf(item, t) ==
  LET copied ==
        [ticket_id |-> IF item.ticket_id.null THEN Str(<<>>)
                       ELSE Str(NumberToString(item.ticket_id.n)),
         created_at |-> DayOf(item.created_at),
         platform |-> item.platform,
         product |-> Str(item.product),
         description |-> Str(item.description),
         core_team_acknowledgement |-> item.core_team_acknowledgement,
         shipped |-> item.shipped,
         shipping_date |-> item.shipping_date]
  IN  IF item.shipped # "undefined" THEN ShippedEffect(copied, t) ELSE copied

\* The "Create Feedback" button: setShowFeedbackForm(true); the form mounts.
OpenFeedbackForm ==
  /\ showFeedbackForm' = TRUE
  /\ feedbackFormData' = EmptyFeedbackForm(fNow)
  /\ feedbackSubmitting' = FALSE /\ feedbackFormErrors' = {}
  /\ UNCHANGED <<editingFeedback, renderThrew>>
  /\ feedbackAppKept

\* The render of the form after its effect has copied the item: the two
\* selects read formData.x === undefined ? '' : formData.x.toString(), which
\* throws a TypeError for the null of a column that was never set.
FeedbackFormThrows(item) ==
  item.core_team_acknowledgement = "null" \/ item.shipped = "null"

\* App.handleEditFeedback: setEditingFeedback(feedback); the form mounts and
\* its effects copy the item.  Where the render that follows throws, React
\* unmounts the whole tree: no form is rendered, nor anything of the App.
handleEditFeedback(item) ==
  /\ IF FeedbackFormThrows(item)
     THEN /\ renderThrew' = TRUE
          /\ editingFeedback' = <<>>
          /\ feedbackFormData' = NoFeedbackData
     ELSE /\ UNCHANGED renderThrew
          /\ editingFeedback' = <<item>>
          /\ feedbackFormData' = FeedbackFormOf(item, fNow)
  /\ feedbackSubmitting' = FALSE /\ feedbackFormErrors' = {}
  /\ UNCHANGED showFeedbackForm
  /\ feedbackAppKept

\* updateField, for every field the user changes, then the effect on shipped.
FeedbackFormFill(data) ==
  /\ FeedbackFormRendered
  /\ feedbackFormData' = IF data.shipped # feedbackFormData.shipped
                         THEN ShippedEffect(data, fNow) ELSE data
  /\ feedbackFormErrors' = feedbackFormErrors \ ChangedFields(feedbackFormData, data)
  /\ UNCHANGED <<showFeedbackForm, editingFeedback, feedbackSubmitting, renderThrew>>
  /\ feedbackAppKept

\* The Cancel and close buttons, which a submit in flight leaves enabled:
\* onCancel().
FeedbackFormCancel ==
  /\ FeedbackFormRendered
  /\ showFeedbackForm' = FALSE /\ editingFeedback' = <<>>
  /\ feedbackFormData' = NoFeedbackData
  /\ feedbackSubmitting' = FALSE /\ feedbackFormErrors' = {}
  /\ UNCHANGED renderThrew
  /\ feedbackAppKept

\* handleSubmit refusing the form: setFormErrors(errors); return.
FeedbackFormRefuse ==
  /\ FeedbackFormRendered /\ ~feedbackSubmitting
  /\ FeedbackFormErrors(feedbackFormData) # {}
  /\ feedbackFormErrors' = FeedbackFormErrors(feedbackFormData)
  /\ UNCHANGED <<showFeedbackForm, editingFeedback, feedbackFormData, feedbackSubmitting>>
  /\ UNCHANGED renderThrew
  /\ feedbackAppKept

\* App.handleCreateFeedback and App.handleUpdateFeedback up to their await;
\* the rest is FeedbackAfterSave.  handleUpdateFeedback returns at once while
\* no item is being edited; the item updated is the one in editingFeedback.
handleCreateFeedback(data) ==
  /\ createFeedback(data)
  /\ UNCHANGED besideFeedbackForm
handleUpdateFeedback(data) ==
  /\ editingFeedback # <<>>
  /\ updateFeedback(editingFeedback[1].id, data)
  /\ UNCHANGED besideFeedbackForm

\* handleSubmit up to its await: onSave(formData), which is
\* handleCreateFeedback for the form that creates and handleUpdateFeedback
\* for the form that edits.
FeedbackFormSubmit ==
  /\ FeedbackFormRendered /\ ~feedbackSubmitting
  /\ FeedbackFormErrors(feedbackFormData) = {}
  /\ feedbackFormErrors' = {}
  /\ feedbackSubmitting' = TRUE
  /\ UNCHANGED <<showFeedbackForm, editingFeedback, feedbackFormData, renderThrew>>
  /\ IF editingFeedback = <<>>
     THEN handleCreateFeedback(feedbackFormData)
     ELSE handleUpdateFeedback(feedbackFormData)

----------------------------------------------------------------------------
(* The search tab: TicketGallery, BulkActions and SearchFilters *)

ITEMS_PER_PAGE == 12
maxVisiblePages == 5

\* sortOptions
SortOptions ==
  {"ticket_id_desc", "ticket_id_asc", "date_desc", "date_asc", "status", "severity"}

\* parseInt(ticket_id) || 0
TicketIdOrZero(ticket_id) ==
  IF parseInt(ticket_id).nan THEN 0 ELSE parseInt(ticket_id).n

\* severityOrder[severity] || 6
severityOrder(severity) ==
  CASE severity = "SEV-1" -> 1
    [] severity = "SEV-2" -> 2
    [] severity = "SEV-3" -> 3
    [] severity = "SEV-4" -> 4
    [] severity = "SEV-5" -> 5
    [] OTHER -> 6

\* The place of a status in the order of localeCompare, which is that of
\* the letters: a text comes before those it starts.
statusOrder(status) ==
  CASE status = "In Dev" -> 1
    [] status = "In QA" -> 2
    [] status = "Not Started" -> 3
    [] status = "Resolved" -> 4
    [] status = "Reviewed by Dev" -> 5
    [] status = "Under Review" -> 6
    [] status = "Under Review - Core Team" -> 7
    [] status = "Under Review - Provenance" -> 8
    [] status = "Under Review - Rain" -> 9
    [] status = "Under Review - Sumsub" -> 10
    [] status = "Waiting on Mod" -> 11
    [] status = "Waiting on User" -> 12

\* What the compare function of processedTickets orders by, ascending: a
\* comparison b - a is that of the negated numbers, a.status.localeCompare(
\* b.status) that of the places of the statuses; default: return 0.
SortKey(ticket, option) ==
  CASE option = "ticket_id_desc" -> 0 - TicketIdOrZero(ticket.ticket_id)
    [] option = "ticket_id_asc" -> TicketIdOrZero(ticket.ticket_id)
    [] option = "date_desc" -> 0 - ticket.date_created
    [] option = "date_asc" -> ticket.date_created
    [] option = "status" -> statusOrder(ticket.status)
    [] option = "severity" -> severityOrder(ticket.severity)
    [] OTHER -> 0

\* Array.prototype.sort is stable: the place of an item is one past the number
\* of items of a smaller key, or of the same key and before it in the list.
SortRank(keys, i) ==
  Cardinality({j \in 1..Len(keys) : \/ keys[j] < keys[i]
                                    \/ keys[j] = keys[i] /\ j < i}) + 1
SortedByKeys(list, keys) ==
  [place \in 1..Len(list) |->
     list[CHOOSE i \in 1..Len(list) : SortRank(keys, i) = place]]

\* [...list].sort(compare)
SortTickets(list, option) ==
  CHOOSE sorted \in
    {SortedByKeys(list, keys) :
       keys \in {[i \in 1..Len(list) |-> SortKey(list[i], option)]}} : TRUE

processedTickets == SortTickets(tickets, sortBy)

\* Math.ceil(length / ITEMS_PER_PAGE)
PagesOf(length) == (length + ITEMS_PER_PAGE - 1) \div ITEMS_PER_PAGE
totalPages == PagesOf(Len(tickets))

\* processedTickets.slice(startIndex, endIndex)
PageSlice(list, page) ==
  LET startIndex == (page - 1) * ITEMS_PER_PAGE
      endIndex == startIndex + ITEMS_PER_PAGE
      to == IF endIndex < Len(list) THEN endIndex ELSE Len(list)
  IN  IF startIndex >= to THEN <<>> ELSE SubSeq(list, startIndex + 1, to)
currentTickets ==
  CHOOSE page \in {PageSlice(sorted, currentPage) : sorted \in {processedTickets}} : TRUE
\* currentTickets.map(t => t.id); the page holds a ticket exactly when
\* currentPage <= totalPages
currentIds ==
  CHOOSE ids \in {[i \in 1..Len(page) |-> page[i].id] : page \in {currentTickets}} : TRUE

\* The gallery is rendered, and not replaced by its loading placeholder.
GalleryRendered == activeTab = "search"
GalleryShown == GalleryRendered /\ ~loading

\* The dependencies of the gallery's three effects at this render.
Deps == [sortBy |-> sortBy, length |-> Len(tickets), bulkMode |-> bulkMode]
EffectsSettled == GalleryRendered => effectDeps = <<Deps>>

\* The pages the buttons of renderPagination lead to, which is the same in
\* both galleries, from the page shown and the number of pages.
PagesOfferedOn(page, total) ==
  LET first == IF page - maxVisiblePages \div 2 > 1
               THEN page - maxVisiblePages \div 2 ELSE 1
      endPage == IF first + maxVisiblePages - 1 < total
                 THEN first + maxVisiblePages - 1 ELSE total
      startPage == IF endPage - first + 1 < maxVisiblePages
                   THEN (IF endPage - maxVisiblePages + 1 > 1
                         THEN endPage - maxVisiblePages + 1 ELSE 1)
                   ELSE first
  IN  IF total <= 1 \/ page > total THEN {}
      ELSE (startPage..endPage)
           \cup (IF startPage > 1 THEN {1} ELSE {})
           \cup (IF endPage < total THEN {total} ELSE {})
           \cup (IF page # 1 THEN {page - 1} ELSE {})
           \cup (IF page # total THEN {page + 1} ELSE {})
PagesOffered == PagesOfferedOn(currentPage, totalPages)

\* The dialogs of BulkActions cover the page while they are open.
BulkActionsShown == GalleryShown /\ bulkMode /\ selectedTickets # <<>>
DialogOpen == BulkActionsShown /\ (showDeleteConfirm \/ showStatusUpdate)

\* What an action of the gallery leaves alone.
galleryAppKept ==
  /\ UNCHANGED <<isSearchMode, userActions, anyFailed>>
  /\ UNCHANGED <<formVars, besideForm, panelVars>>
  /\ UNCHANGED ticketVars
  /\ UNCHANGED exceptTickets

\* The effects that have a changed dependency run, all of them when the
\* gallery has just mounted: setCurrentPage(1) on [sortBy] and on
\* [tickets.length], and on [bulkMode] the selection is dropped when the bulk
\* mode is off.
GalleryEffects ==
  /\ GalleryRendered /\ effectDeps # <<Deps>>
  /\ currentPage' =
       IF effectDeps = <<>> \/ effectDeps[1].sortBy # sortBy
                            \/ effectDeps[1].length # Len(tickets)
       THEN 1 ELSE currentPage
  /\ selectedTickets' =
       IF (effectDeps = <<>> \/ effectDeps[1].bulkMode # bulkMode) /\ ~bulkMode
       THEN <<>> ELSE selectedTickets
  /\ effectDeps' = <<Deps>>
  /\ UNCHANGED <<sortBy, bulkMode>>
  /\ UNCHANGED bulkActionsVars
  /\ galleryAppKept

handlePageChange(page) ==
  /\ GalleryShown /\ ~DialogOpen
  /\ page \in PagesOffered
  /\ currentPage' = page
  /\ UNCHANGED <<sortBy, selectedTickets, bulkMode, effectDeps>>
  /\ UNCHANGED bulkActionsVars
  /\ galleryAppKept

\* The sort select: onChange={setSortBy}
setSortBy(option) ==
  /\ GalleryShown /\ ~DialogOpen
  /\ sortBy # option
  /\ sortBy' = option
  /\ UNCHANGED <<currentPage, selectedTickets, bulkMode, effectDeps>>
  /\ UNCHANGED bulkActionsVars
  /\ galleryAppKept

\* BulkActions is rendered while bulkMode holds and the gallery is shown: it
\* is as first rendered when it mounts.
BulkActionsReset ==
  /\ showDeleteConfirm' = FALSE /\ showStatusUpdate' = FALSE /\ selectedStatus' = ""
  /\ UNCHANGED bulkClicks

\* The "Bulk Actions" button: setBulkMode(!bulkMode)
setBulkMode ==
  /\ GalleryShown /\ ~DialogOpen
  /\ currentPage <= totalPages
  /\ bulkMode' = ~bulkMode
  /\ BulkActionsReset
  /\ UNCHANGED <<currentPage, sortBy, selectedTickets, effectDeps>>
  /\ galleryAppKept

\* new Set(selectedTickets) with id added or deleted
SetAdd(set, id) == IF Includes(set, id) THEN set ELSE Append(set, id)
SetDelete(set, id) == SelectSeq(set, LAMBDA x : x # id)

\* The checkbox of a card of the page: onSelect(ticket.id, !selected)
handleSelectTicket(id, selected) ==
  /\ GalleryShown /\ ~DialogOpen /\ bulkMode
  /\ Includes(currentIds, id)
  /\ selected = ~Includes(selectedTickets, id)
  /\ selectedTickets' = IF selected THEN SetAdd(selectedTickets, id)
                        ELSE SetDelete(selectedTickets, id)
  /\ UNCHANGED <<currentPage, sortBy, bulkMode, effectDeps>>
  /\ UNCHANGED bulkActionsVars
  /\ galleryAppKept

allCurrentSelected ==
  \E ids \in {currentIds} :
    ids # <<>> /\ \A i \in 1..Len(ids) : Includes(selectedTickets, ids[i])

\* The "Select all on this page" checkbox: onChange(!checked)
handleSelectAll(checked) ==
  /\ GalleryShown /\ ~DialogOpen /\ bulkMode
  /\ currentPage <= totalPages
  /\ checked = ~allCurrentSelected
  /\ selectedTickets' = IF checked THEN currentIds ELSE <<>>
  /\ UNCHANGED <<currentPage, sortBy, bulkMode, effectDeps>>
  /\ UNCHANGED bulkActionsVars
  /\ galleryAppKept

\* TicketGallery.handleBulkDelete, up to the await of the App's handler
handleBulkDelete ==
  /\ handleBulkDeleteTickets(selectedTickets)
  /\ selectedTickets' = <<>>
  /\ UNCHANGED <<currentPage, sortBy, bulkMode, effectDeps>>
  /\ UNCHANGED panelVars

handleBulkStatusUpdate(status) ==
  /\ handleBulkUpdateTicketStatus(selectedTickets, status)
  /\ selectedTickets' = <<>>
  /\ UNCHANGED <<currentPage, sortBy, bulkMode, effectDeps>>
  /\ UNCHANGED panelVars

----------------------------------------------------------------------------
(* BulkActions (components/BulkActions.tsx) *)

\* history: the button pressed
Clicked(button) == bulkClicks' = button

\* What a button of BulkActions that calls nothing leaves alone.
bulkActionsKept ==
  /\ UNCHANGED galleryVars
  /\ galleryAppKept

\* A variant of the button that deletes at once.
DeleteSelectedAtOnce ==
  /\ BulkActionsShown /\ ~DialogOpen
  /\ handleBulkDelete
  /\ Clicked("Delete Selected")
  /\ UNCHANGED <<showDeleteConfirm, showStatusUpdate, selectedStatus>>

\* "Delete Selected": setShowDeleteConfirm(true)
DeleteSelected ==
  /\ BulkActionsShown /\ ~DialogOpen
  /\ showDeleteConfirm' = TRUE
  /\ Clicked("Delete Selected")
  /\ UNCHANGED <<showStatusUpdate, selectedStatus>>
  /\ bulkActionsKept

\* The dialog's "Delete N tickets" button: handleDelete
handleDelete ==
  /\ BulkActionsShown /\ showDeleteConfirm
  /\ handleBulkDelete
  /\ showDeleteConfirm' = FALSE
  /\ Clicked("Delete")
  /\ UNCHANGED <<showStatusUpdate, selectedStatus>>

\* The dialog's "Cancel" button: setShowDeleteConfirm(false)
CancelDelete ==
  /\ BulkActionsShown /\ showDeleteConfirm
  /\ showDeleteConfirm' = FALSE
  /\ Clicked("Cancel")
  /\ UNCHANGED <<showStatusUpdate, selectedStatus>>
  /\ bulkActionsKept

\* "Update Status": setShowStatusUpdate(true)
UpdateStatus ==
  /\ BulkActionsShown /\ ~DialogOpen
  /\ showStatusUpdate' = TRUE
  /\ Clicked("Update Status")
  /\ UNCHANGED <<showDeleteConfirm, selectedStatus>>
  /\ bulkActionsKept

\* The dialog's select: onChange={setSelectedStatus}
setSelectedStatus(status) ==
  /\ BulkActionsShown /\ showStatusUpdate
  /\ selectedStatus # status
  /\ selectedStatus' = status
  /\ UNCHANGED <<showDeleteConfirm, showStatusUpdate, bulkClicks>>
  /\ bulkActionsKept

\* The dialog's "Update Status" button, disabled while no status is chosen
handleStatusUpdate ==
  /\ BulkActionsShown /\ showStatusUpdate
  /\ selectedStatus # ""
  /\ handleBulkStatusUpdate(selectedStatus)
  /\ selectedStatus' = ""
  /\ showStatusUpdate' = FALSE
  /\ Clicked("Update")
  /\ UNCHANGED showDeleteConfirm

CancelStatusUpdate ==
  /\ BulkActionsShown /\ showStatusUpdate
  /\ showStatusUpdate' = FALSE
  /\ selectedStatus' = ""
  /\ Clicked("Cancel Update")
  /\ UNCHANGED showDeleteConfirm
  /\ bulkActionsKept

\* "Clear Selection": onClearSelection
ClearSelection ==
  /\ BulkActionsShown /\ ~DialogOpen
  /\ selectedTickets' = <<>>
  /\ Clicked("Clear Selection")
  /\ UNCHANGED <<showDeleteConfirm, showStatusUpdate, selectedStatus>>
  /\ UNCHANGED <<currentPage, sortBy, bulkMode, effectDeps>>
  /\ galleryAppKept

----------------------------------------------------------------------------
(* SearchFilters (components/SearchFilters.tsx) and its own useTickets() *)

PanelRequest == [stage |-> "sent", rows |-> <<>>]

\* The tab's components mount: the gallery as first rendered, its effects yet
\* to run, and SearchFilters, whose useTickets() runs its mount effect,
\* fetchTickets().
SearchTabMounts ==
  /\ currentPage' = 1 /\ sortBy' = "ticket_id_desc" /\ selectedTickets' = <<>>
  /\ bulkMode' = FALSE /\ effectDeps' = <<>>
  /\ BulkActionsReset
  /\ panelTickets' = <<>> /\ panelLoading' = TRUE /\ panelReqs' = {PanelRequest}

\* The tab's components unmount: their state is gone, and so is what the
\* requests of SearchFilters' hook would have set.
SearchTabUnmounts ==
  /\ currentPage' = 1 /\ sortBy' = "ticket_id_desc" /\ selectedTickets' = <<>>
  /\ bulkMode' = FALSE /\ effectDeps' = <<>>
  /\ BulkActionsReset
  /\ panelTickets' = <<>> /\ panelLoading' = FALSE /\ panelReqs' = {}

\* What an action of SearchFilters' hook leaves alone.
panelKept ==
  /\ UNCHANGED <<galleryVars, bulkActionsVars>>
  /\ UNCHANGED <<isSearchMode, userActions, anyFailed, formVars, besideForm>>
  /\ UNCHANGED ticketVars
  /\ UNCHANGED exceptTickets

\* The service answers the panel's select, or fails.
PanelSupabaseSelect(r) ==
  /\ r.stage = "sent"
  /\ \E rows \in OrderDesc(db) :
       panelReqs' = (panelReqs \ {r}) \cup {[stage |-> "ok", rows |-> rows]}
  /\ UNCHANGED <<panelTickets, panelLoading>>
  /\ panelKept
PanelSupabaseFails(r) ==
  /\ r.stage = "sent"
  /\ panelReqs' = (panelReqs \ {r}) \cup {[stage |-> "error", rows |-> <<>>]}
  /\ UNCHANGED <<panelTickets, panelLoading>>
  /\ panelKept

\* fetchTickets past its await, in SearchFilters' hook
PanelHandleFetch(r) ==
  /\ r.stage # "sent"
  /\ panelTickets' = IF r.stage = "ok" THEN TransformAll(r.rows, now) ELSE panelTickets
  /\ panelLoading' = FALSE
  /\ panelReqs' = panelReqs \ {r}
  /\ panelKept

\* The panel's "Search" and "Clear" buttons call the App's handlers, whose
\* hook sets loading: the gallery shows its placeholder and BulkActions
\* unmounts.
PanelSearch(filters) ==
  /\ GalleryRendered /\ ~DialogOpen
  /\ handleSearch(filters)
  /\ BulkActionsReset
  /\ UNCHANGED <<galleryVars, panelVars>>
PanelClear ==
  /\ GalleryRendered /\ ~DialogOpen
  /\ handleClearSearch
  /\ BulkActionsReset
  /\ UNCHANGED <<galleryVars, panelVars>>

\* The delete button of a card of the page, confirm() answered with OK
CardDelete(id) ==
  /\ GalleryShown /\ ~DialogOpen
  /\ Includes(currentIds, id)
  /\ handleDeleteTicket(id)
  /\ SearchTabKept

----------------------------------------------------------------------------
(* The feedback tab: FeedbackGallery and the App's handlers it is given *)

FeedbackSortOptions ==
  {"date_desc", "date_asc", "platform", "product", "shipped", "acknowledged"}

\* The place of a platform in the order of localeCompare.
platformOrder(platform) ==
  CASE platform = "Discord" -> 1
    [] platform = "Intercom" -> 2
    [] platform = "X" -> 3
    [] platform = "Zoom (Analyst Call)" -> 4

\* a.localeCompare(b) < 0 on texts of lower-case letters and digits, which
\* the locale orders as their code units are ordered.
RECURSIVE LocaleBefore(_, _)
LocaleBefore(a, b) ==
  IF b = <<>> THEN FALSE
  ELSE IF a = <<>> THEN TRUE
  ELSE IF Head(a) # Head(b) THEN CharCode(Head(a)) < CharCode(Head(b))
  ELSE LocaleBefore(Tail(a), Tail(b))

\* The compare function of processedFeedback gives a negative number.  On
\* 'shipped' and 'acknowledged' it is an order where no item has null with
\* another having false, as in every list of the specifications; default:
\* return 0.
FeedbackSortsBefore(a, b, option) ==
  CASE option = "date_desc" -> a.created_at > b.created_at
    [] option = "date_asc" -> a.created_at < b.created_at
    [] option = "platform" -> platformOrder(a.platform) < platformOrder(b.platform)
    [] option = "product" -> LocaleBefore(a.product, b.product)
    [] option = "shipped" -> a.shipped # b.shipped /\ a.shipped = "true"
    [] option = "acknowledged" ->
         /\ a.core_team_acknowledgement # b.core_team_acknowledgement
         /\ a.core_team_acknowledgement = "true"
    [] OTHER -> FALSE

\* [...feedback].sort(compare), a stable sort.
FeedbackSortRank(list, option, i) ==
  Cardinality({j \in 1..Len(list) :
                 \/ FeedbackSortsBefore(list[j], list[i], option)
                 \/ /\ ~FeedbackSortsBefore(list[i], list[j], option)
                    /\ j < i}) + 1
SortFeedback(list, option) ==
  [place \in 1..Len(list) |->
     list[CHOOSE i \in 1..Len(list) : FeedbackSortRank(list, option, i) = place]]

processedFeedback == SortFeedback(feedback, feedbackSortBy)
feedbackTotalPages == PagesOf(Len(feedback))
\* processedFeedback.slice(startIndex, endIndex).map(f => f.id)
currentFeedbackIds ==
  CHOOSE ids \in
    {[i \in 1..Len(page) |-> page[i].id] :
       page \in {PageSlice(processedFeedback, feedbackPage)}} : TRUE

\* The gallery is rendered, and not replaced by its loading placeholder.
FeedbackGalleryRendered == activeTab = "feedback"
FeedbackGalleryShown == FeedbackGalleryRendered /\ ~fLoading

\* The dependencies of the two effects that set the page at this render.
FeedbackDeps == [sortBy |-> feedbackSortBy, length |-> Len(feedback)]
FeedbackEffectsSettled ==
  FeedbackGalleryRendered => feedbackEffectDeps = <<FeedbackDeps>>

\* What an action of the feedback gallery leaves alone.
feedbackGalleryKept ==
  /\ UNCHANGED <<isSearchMode, userActions, anyFailed, activeTab>>
  /\ UNCHANGED <<formVars, feedbackFormVars, searchTabVars>>
  /\ UNCHANGED <<ticketVars, pureVars, notionVars, feedbackVars, settingsVars>>

\* The effects that have a changed dependency run, both when the gallery
\* has just mounted: setCurrentPage(1) on [sortBy] and on [feedback.length].
FeedbackGalleryEffects ==
  /\ FeedbackGalleryRendered /\ feedbackEffectDeps # <<FeedbackDeps>>
  /\ feedbackPage' =
       IF feedbackEffectDeps = <<>>
          \/ feedbackEffectDeps[1].sortBy # feedbackSortBy
          \/ feedbackEffectDeps[1].length # Len(feedback)
       THEN 1 ELSE feedbackPage
  /\ feedbackEffectDeps' = <<FeedbackDeps>>
  /\ UNCHANGED feedbackSortBy
  /\ feedbackGalleryKept

handleFeedbackPageChange(page) ==
  /\ FeedbackGalleryShown
  /\ page \in PagesOfferedOn(feedbackPage, feedbackTotalPages)
  /\ feedbackPage' = page
  /\ UNCHANGED <<feedbackSortBy, feedbackEffectDeps>>
  /\ feedbackGalleryKept

\* The sort select: onChange={setSortBy}
setFeedbackSortBy(option) ==
  /\ FeedbackGalleryShown
  /\ feedbackSortBy # option
  /\ feedbackSortBy' = option
  /\ UNCHANGED <<feedbackPage, feedbackEffectDeps>>
  /\ feedbackGalleryKept

\* The delete button of a card of the page.
FeedbackCardDelete(id) ==
  /\ FeedbackGalleryShown
  /\ Includes(currentFeedbackIds, id)
  /\ handleDeleteFeedback(id)

\* The feedback tab mounts or unmounts: the gallery is as first rendered,
\* its effects not yet run.
FeedbackGalleryReset ==
  /\ feedbackPage' = 1 /\ feedbackSortBy' = "date_desc" /\ feedbackEffectDeps' = <<>>

----------------------------------------------------------------------------
\* The navigation: setActiveTab(tab).
setActiveTab(tab) ==
  /\ activeTab' = tab
  /\ IF tab = "search" /\ activeTab # "search" THEN SearchTabMounts
     ELSE IF tab # "search" /\ activeTab = "search" THEN SearchTabUnmounts
     ELSE UNCHANGED searchTabVars
  /\ IF (tab = "feedback") # (activeTab = "feedback") THEN FeedbackGalleryReset
     ELSE UNCHANGED feedbackGalleryVars
  /\ UNCHANGED <<isSearchMode, userActions, anyFailed>>
  /\ UNCHANGED <<formVars, feedbackFormVars>>
  /\ UNCHANGED ticketVars
  /\ UNCHANGED exceptTickets

----------------------------------------------------------------------------
(* Specification SpecForms: the two forms, the ticket form saving through *)
(* the App and useTickets                                                 *)

TicketFormInputs ==
  TicketForms \cup
  { BlankIdForm,
    Form(<<"4">>, "In Dev", <<>>, <<" ">>, <<"x">>, <<>>, <<>>, "SEV-2"),
    Form(<<"4">>, "In Dev", <<>>, <<"a">>, <<>>, <<>>, <<>>, "SEV-2") }

FeedbackFormInputs ==
  { FeedbackForm(<<"7">>, 1, "Intercom", <<"p">>, <<"a", "b">>, "true", "true", 1),
    FeedbackForm(<<>>, 1, "Discord", <<>>, <<"c">>, "false", "false", NoDate),
    FeedbackForm(<<>>, 1, "Intercom", <<"p">>, <<"a">>, "undefined", "undefined", NoDate),
    FeedbackForm(<<" ">>, 1, "Intercom", <<>>, <<"a">>, "true", "undefined", NoDate),
    FeedbackForm(<<>>, 1, "Zoom (Analyst Call)", <<>>, <<"a">>, "undefined", "undefined", NoDate),
    FeedbackForm(<<"9">>, NoDate, "Discord", <<>>, <<"a">>, "undefined", "false", NoDate) }

\* The user submits once the hook has nothing in flight.
CanSave == mounted /\ reqs = {} /\ calls < MaxSaves
CanSaveFeedback == fMounted /\ fReqs = {} /\ fCalls < MaxSaves
\* Both hooks have loaded their lists, which the user waits for.
Loaded == mounted /\ reqs = {} /\ fMounted /\ fReqs = {}
\* The feedback form, an overlay as well, keeps the feedback tab out of reach.
OnFeedbackPage ==
  activeTab = "feedback" /\ ~FeedbackFormRendered /\ FeedbackEffectsSettled

\* The user goes to the feedback tab before using a form, or stays.
Untouched ==
  /\ Loaded /\ activeTab = "tickets" /\ ~TicketFormRendered /\ calls = 0

\* The tree of the App is mounted: no render has thrown.
AppRendered == ~renderThrew

\* What the App and its user do.
FormsSteps ==
  \/ MountTickets
  \/ Loaded /\ activeTab = "tickets" /\ OnPage /\ OpenTicketForm
  \/ \E i \in 1..Len(tickets) :
       Loaded /\ activeTab = "tickets" /\ OnPage /\ handleEditTicket(tickets[i])
  \/ \E data \in TicketFormInputs : TicketFormFill(data)
  \/ TicketFormCancel
  \/ TicketFormRefuse
  \/ CanSave /\ TicketFormSubmit
  \/ \E r \in reqs : HandleError(r) /\ AfterAwait(r)
  \/ \E r \in reqs : HandleFetch(r) /\ AfterAwait(r)
  \/ \E r \in reqs : HandleCreate(r) /\ AfterAwait(r)
  \/ \E r \in reqs : HandleUpdate(r) /\ AfterAwait(r)
  \/ mounted /\ FeedbackMount
  \/ Untouched /\ setActiveTab("feedback")
  \/ FeedbackGalleryEffects
  \/ OnFeedbackPage /\ OpenFeedbackForm
  \/ \E i \in 1..Len(feedback) : OnFeedbackPage /\ handleEditFeedback(feedback[i])
  \/ \E data \in FeedbackFormInputs : ~feedbackSubmitting /\ FeedbackFormFill(data)
  \/ FeedbackFormCancel
  \/ FeedbackFormRefuse
  \/ CanSaveFeedback /\ FeedbackFormSubmit
  \/ \E r \in fReqs :
       FeedbackEffectsSettled /\ FeedbackHandleError(r) /\ FeedbackAfterAwait(r)
  \/ \E r \in fReqs : FeedbackEffectsSettled /\ FeedbackHandleFetch(r)
  \/ \E r \in fReqs :
       FeedbackEffectsSettled /\ FeedbackHandleCreate(r) /\ FeedbackAfterAwait(r)
  \/ \E r \in fReqs :
       FeedbackEffectsSettled /\ FeedbackHandleUpdate(r) /\ FeedbackAfterAwait(r)

\* The App runs while its tree is mounted; the backend answers the requests
\* it was sent whether or not it is.
FormsNext ==
  \/ AppRendered /\ FormsSteps
  \/ \E r \in reqs : SupabaseFails(r) /\ UNCHANGED appVars
  \/ \E r \in reqs : SupabaseSelect(r) /\ UNCHANGED appVars
  \/ \E r \in reqs : SupabaseInsert(r) /\ UNCHANGED appVars
  \/ \E r \in reqs : SupabaseUpdate(r) /\ UNCHANGED appVars
  \/ \E r \in fReqs : FeedbackFails(r)
  \/ \E r \in fReqs : FeedbackSelect(r)
  \/ \E r \in fReqs : FeedbackInsert(r)
  \/ \E r \in fReqs : FeedbackUpdate(r)

----------------------------------------------------------------------------
(* Specification SpecGallery: the search tab over a table of two pages *)

\* Fourteen tickets created one after the other before the client starts:
\* all but the last resolved, all but the first of SEV-3.
GalleryRow(i) ==
  [ticket_id |-> i, status |-> IF i = 14 THEN "In Dev" ELSE "Resolved",
   issue_description |-> Str(<<"a">>), core_team_comment |-> Null,
   wallet_address_safe_email |-> Str(<<"x">>), product |-> Null, category |-> Null,
   severity |-> IF i = 1 THEN "SEV-1" ELSE "SEV-3",
   date_of_resolved |-> IF i = 14 THEN NoDate ELSE DayOf(14), created_at |-> i]
GalleryTable == {GalleryRow(i) : i \in 1..14}

\* Searches of thirteen results each.
GalleryFilters ==
  { Filter(Undef, <<"Resolved">>, <<>>, <<>>, <<>>, NoDate, NoDate),
    Filter(Undef, <<>>, <<"SEV-3">>, <<>>, <<>>, NoDate, NoDate) }
GalleryForm ==
  Form(<<"1", "5">>, "Not Started", <<>>, <<"a">>, <<"x">>, <<>>, <<>>, "SEV-2")
GalleryStatuses == {"In QA"}
\* The search that drops the newest ticket.
BulkFilters == {Filter(Undef, <<"Resolved">>, <<>>, <<>>, <<>>, NoDate, NoDate)}

\* The card the user ticks or deletes: the first of the page.
CardsUsed ==
  IF ~GalleryShown THEN {} ELSE {ids[1] : ids \in {currentIds} \ {<<>>}}

GalleryInit ==
  /\ db = GalleryTable
  /\ tickets = <<>>
  /\ loading = FALSE
  /\ error = ""
  /\ reqs = {}
  /\ calls = 0
  /\ now = MidnightOf(DayOf(14) + 1)
  /\ dataSource = "supabase"
  /\ mounted = FALSE
  /\ last = NoLast

\* Fourteen feedback items created one after the other before the client
\* starts: all but the first from Intercom, all but the last shipped.
FeedbackGalleryRow(i) ==
  [id |-> i, ticket_id |-> IntOf(i),
   platform |-> IF i = 1 THEN "Discord" ELSE "Intercom",
   product |-> Str(<<"p">>), description |-> Str(<<"a">>),
   core_team_acknowledgement |-> "true",
   shipped |-> IF i = 14 THEN "false" ELSE "true",
   shipping_date |-> IF i = 14 THEN NoDate ELSE DayOf(14), created_at |-> i]
FeedbackGalleryTable == {FeedbackGalleryRow(i) : i \in 1..14}

\* Searches of thirteen results each.
FeedbackGalleryFilters ==
  { FeedbackFilter(Undef, <<"Intercom">>, <<>>, "undefined", "undefined", NoDate, NoDate),
    FeedbackFilter(Undef, <<>>, <<>>, "undefined", "true", NoDate, NoDate) }
FeedbackGalleryForm ==
  FeedbackForm(<<"7">>, 9, "Intercom", <<"p">>, <<"a">>, "true", "true", 9)

\* The card the user deletes: the first of the page.
FeedbackCardsUsed ==
  IF ~FeedbackGalleryShown THEN {}
  ELSE {ids[1] : ids \in {currentFeedbackIds} \ {<<>>}}

FeedbackGalleryInit ==
  /\ fdb = FeedbackGalleryTable
  /\ fSerial = 15
  /\ feedback = <<>>
  /\ fLoading = FALSE
  /\ fError = ""
  /\ fReqs = {}
  /\ fCalls = 0
  /\ fNow = MidnightOf(DayOf(14) + 1)
  /\ fMounted = FALSE
  /\ fLast = NoFeedbackLast

\* The user acts on what is rendered once its effects have run, and makes a
\* call once the previous one has completed.
CanAct == EffectsSettled /\ panelReqs = {} /\ reqs = {}
CanCall == mounted /\ calls < MaxGalleryCalls /\ CanAct
FeedbackCanAct ==
  /\ activeTab = "feedback" /\ FeedbackEffectsSettled /\ ~FeedbackFormRendered
  /\ fReqs = {}
FeedbackCanCall == fCalls < MaxGalleryCalls /\ FeedbackCanAct

\* The pages and the sort of the gallery, over searches, creates and deletes.
GalleryNext ==
  \/ MountTickets
  \/ mounted /\ activeTab = "tickets" /\ setActiveTab("search")
  \/ CanAct /\ activeTab = "search" /\ setActiveTab("tickets")
  \/ GalleryEffects
  \/ \E page \in 1..totalPages : CanAct /\ handlePageChange(page)
  \/ \E option \in SortOptions : CanAct /\ setSortBy(option)
  \/ \E filters \in GalleryFilters : CanCall /\ PanelSearch(filters)
  \/ CanCall /\ PanelClear
  \/ CanCall /\ \E id \in CardsUsed : CardDelete(id)
  \/ CanCall /\ activeTab = "tickets" /\ handleCreateTicket(GalleryForm) /\ FormKept
       /\ SearchTabKept
  \/ \E r \in reqs : SupabaseFails(r) /\ UNCHANGED appVars
  \/ \E r \in reqs : SupabaseSelect(r) /\ UNCHANGED appVars
  \/ \E r \in reqs : SupabaseSearch(r) /\ UNCHANGED appVars
  \/ \E r \in reqs : SupabaseInsert(r) /\ UNCHANGED appVars
  \/ \E r \in reqs : SupabaseDelete(r) /\ UNCHANGED appVars
  \/ \E r \in reqs : EffectsSettled /\ HandleError(r) /\ AfterAwait(r)
  \/ \E r \in reqs : EffectsSettled /\ HandleFetch(r) /\ AfterAwait(r)
  \/ \E r \in reqs : EffectsSettled /\ HandleSearch(r) /\ AfterAwait(r)
  \/ \E r \in reqs : EffectsSettled /\ HandleCreate(r) /\ AfterAwait(r)
  \/ \E r \in reqs : EffectsSettled /\ HandleDelete(r) /\ AfterAwait(r)
  \/ \E r \in panelReqs : PanelSupabaseSelect(r)
  \/ \E r \in panelReqs : PanelSupabaseFails(r)
  \/ \E r \in panelReqs : PanelHandleFetch(r)
  \/ mounted /\ FeedbackMount
  \/ CanAct /\ fMounted /\ fReqs = {} /\ calls = 0 /\ activeTab = "tickets"
       /\ setActiveTab("feedback")
  \/ FeedbackCanAct /\ fCalls = 0 /\ setActiveTab("tickets")
  \/ FeedbackGalleryEffects
  \/ \E page \in 1..feedbackTotalPages :
       FeedbackCanAct /\ handleFeedbackPageChange(page)
  \/ \E option \in FeedbackSortOptions : FeedbackCanAct /\ setFeedbackSortBy(option)
  \/ \E filters \in FeedbackGalleryFilters :
       FeedbackCanCall /\ handleFeedbackSearch(filters)
  \/ FeedbackCanCall /\ handleClearFeedbackSearch
  \/ FeedbackCanCall /\ \E id \in FeedbackCardsUsed : FeedbackCardDelete(id)
  \/ FeedbackCanCall /\ OpenFeedbackForm
  \/ feedbackFormData # FeedbackGalleryForm /\ ~feedbackSubmitting
       /\ FeedbackFormFill(FeedbackGalleryForm)
  \/ ~feedbackSubmitting /\ FeedbackFormCancel
  \/ feedbackFormData = FeedbackGalleryForm /\ FeedbackFormSubmit
  \/ \E r \in fReqs : FeedbackFails(r)
  \/ \E r \in fReqs : FeedbackSelect(r)
  \/ \E r \in fReqs : FeedbackSearch(r)
  \/ \E r \in fReqs : FeedbackInsert(r)
  \/ \E r \in fReqs : FeedbackDelete(r)
  \/ \E r \in fReqs :
       FeedbackEffectsSettled /\ FeedbackHandleError(r) /\ FeedbackAfterAwait(r)
  \/ \E r \in fReqs : FeedbackEffectsSettled /\ FeedbackHandleFetch(r)
  \/ \E r \in fReqs : FeedbackEffectsSettled /\ FeedbackHandleSearch(r)
  \/ \E r \in fReqs :
       FeedbackEffectsSettled /\ FeedbackHandleCreate(r) /\ FeedbackAfterAwait(r)
  \/ \E r \in fReqs : FeedbackEffectsSettled /\ FeedbackHandleDelete(r)

----------------------------------------------------------------------------
(* Specification SpecBulk: the selection and the bulk actions of the gallery *)

CanBulkCall == mounted /\ calls < MaxBulkCalls /\ CanAct
\* The user ticks a card, or all of the page, while nothing is selected, and
\* unticks the one ticked.
CanTick == CanAct /\ bulkMode /\ selectedTickets = <<>>

BulkNext ==
  \/ MountTickets
  \/ mounted /\ activeTab = "tickets" /\ setActiveTab("search")
  \/ GalleryEffects
  \/ \E page \in 1..totalPages : CanAct /\ handlePageChange(page)
  \/ CanAct /\ setBulkMode
  \/ CanTick /\ \E id \in CardsUsed : handleSelectTicket(id, TRUE)
  \/ CanAct /\ bulkMode /\ Len(selectedTickets) = 1
       /\ \E id \in CardsUsed : handleSelectTicket(id, FALSE)
  \/ CanTick /\ handleSelectAll(TRUE)
  \/ CanAct /\ handleSelectAll(FALSE)
  \/ CanAct /\ DeleteSelected
  \/ CanBulkCall /\ handleDelete
  \/ CanAct /\ CancelDelete
  \/ CanAct /\ UpdateStatus
  \/ \E status \in GalleryStatuses : CanAct /\ setSelectedStatus(status)
  \/ CanBulkCall /\ handleStatusUpdate
  \/ CanAct /\ CancelStatusUpdate
  \/ CanAct /\ ClearSelection
  \/ \E filters \in BulkFilters : CanBulkCall /\ PanelSearch(filters)
  \/ CanBulkCall /\ PanelClear
  \/ CanBulkCall /\ \E id \in CardsUsed : CardDelete(id)
  \/ \E r \in reqs : SupabaseFails(r) /\ UNCHANGED appVars
  \/ \E r \in reqs : SupabaseSelect(r) /\ UNCHANGED appVars
  \/ \E r \in reqs : SupabaseSearch(r) /\ UNCHANGED appVars
  \/ \E r \in reqs : SupabaseDelete(r) /\ UNCHANGED appVars
  \/ \E r \in reqs : SupabaseBulkDelete(r) /\ UNCHANGED appVars
  \/ \E r \in reqs : SupabaseBulkUpdate(r) /\ UNCHANGED appVars
  \/ \E r \in reqs : EffectsSettled /\ HandleError(r) /\ AfterAwait(r)
  \/ \E r \in reqs : EffectsSettled /\ HandleFetch(r) /\ AfterAwait(r)
  \/ \E r \in reqs : EffectsSettled /\ HandleSearch(r) /\ AfterAwait(r)
  \/ \E r \in reqs : EffectsSettled /\ HandleDelete(r) /\ AfterAwait(r)
  \/ \E r \in reqs : EffectsSettled /\ HandleBulkDelete(r) /\ AfterAwait(r)
  \/ \E r \in reqs : EffectsSettled /\ HandleBulkStatus(r) /\ AfterAwait(r)
  \/ \E r \in panelReqs : PanelSupabaseSelect(r)
  \/ \E r \in panelReqs : PanelHandleFetch(r)

----------------------------------------------------------------------------
(* The specifications *)

vars == <<ticketVars, pureVars, notionVars, feedbackVars, settingsVars, appVars>>

\* The ticket side before the hook is used, on an empty table.
TicketIdle ==
  /\ db = {} /\ tickets = <<>> /\ loading = FALSE /\ error = "" /\ reqs = {}
  /\ calls = 0 /\ now = StartInstant /\ dataSource = "supabase"
  /\ mounted = FALSE /\ last = NoLast

\* The Notion adapter before it is used, on an empty database.
NotionIdle ==
  /\ pages = {} /\ nToken = FALSE /\ nDatabaseId = FALSE
  /\ nCalls = 0 /\ nNow = StartInstant /\ nReqs = {} /\ nLast = NoNotionCall

\* The feedback side before the hook is used, on an empty table.
FeedbackIdle ==
  /\ fdb = {} /\ fSerial = 1 /\ feedback = <<>> /\ fLoading = FALSE /\ fError = ""
  /\ fReqs = {} /\ fCalls = 0 /\ fNow = StartInstant /\ fMounted = FALSE
  /\ fLast = NoFeedbackLast

PureIdle == CodecIdle /\ HashIdle

\* The App as first rendered.
FormIdle ==
  /\ showTicketForm = FALSE /\ editingTicket = <<>>
  /\ formData = NoData /\ isSubmitting = FALSE /\ formErrors = {}
FeedbackGalleryIdle ==
  /\ feedbackPage = 1 /\ feedbackSortBy = "date_desc" /\ feedbackEffectDeps = <<>>
FeedbackFormIdle ==
  /\ showFeedbackForm = FALSE /\ feedbackFormData = NoFeedbackData
  /\ feedbackSubmitting = FALSE /\ feedbackFormErrors = {}
  /\ editingFeedback = <<>> /\ renderThrew = FALSE
\* The search tab is not shown: its components are not rendered.
GalleryIdle ==
  /\ currentPage = 1 /\ sortBy = "ticket_id_desc" /\ selectedTickets = <<>>
  /\ bulkMode = FALSE /\ effectDeps = <<>>
BulkActionsIdle ==
  /\ showDeleteConfirm = FALSE /\ showStatusUpdate = FALSE /\ selectedStatus = ""
  /\ bulkClicks = ""
PanelIdle == panelTickets = <<>> /\ panelLoading = FALSE /\ panelReqs = {}
AppIdle ==
  /\ isSearchMode = FALSE /\ userActions = <<>> /\ anyFailed = FALSE
  /\ FormIdle /\ FeedbackFormIdle /\ FeedbackGalleryIdle /\ activeTab = "tickets"
  /\ GalleryIdle /\ BulkActionsIdle /\ PanelIdle

\* The settings provider mounted on an empty storage, its effects settled.
SettingsIdle ==
  /\ storage = [NoStorage EXCEPT !.data_source = "supabase"]
  /\ notionConfig = NoNotionConfig
  /\ sMounted = TRUE /\ sPersisted = "supabase" /\ sConfigSaved = NoNotionConfig
  /\ sSaved = "" /\ sChosen = ""

InitPure == PureInit /\ TicketIdle /\ NotionIdle /\ FeedbackIdle /\ SettingsIdle
  /\ AppIdle
SpecPure == InitPure /\ [][PureNext]_vars

InitNotion == NotionInit /\ TicketIdle /\ PureIdle /\ FeedbackIdle /\ SettingsIdle
  /\ AppIdle
SpecNotion == InitNotion /\ [][NotionNext]_vars

InitFeedback == FeedbackInit /\ TicketIdle /\ PureIdle /\ NotionIdle /\ SettingsIdle
  /\ AppIdle
SpecFeedback == InitFeedback /\ [][FeedbackNext]_vars

Init == TicketInit /\ PureIdle /\ NotionIdle /\ FeedbackIdle /\ SettingsIdle
  /\ AppIdle
Next == TicketNext
Spec == Init /\ [][Next]_vars

\* The ticket side but dataSource, before the hook is used.
TicketRestIdle ==
  /\ db = {} /\ tickets = <<>> /\ loading = FALSE /\ error = "" /\ reqs = {}
  /\ calls = 0 /\ now = StartInstant /\ mounted = FALSE /\ last = NoLast

InitHooks == TicketInit /\ PureIdle /\ NotionIdle /\ FeedbackInit /\ SettingsIdle
  /\ AppIdle
SpecHooks == InitHooks /\ [][HooksNext]_vars

InitPartial == PartialInit /\ PureIdle /\ NotionIdle /\ SettingsIdle /\ AppIdle
SpecPartial == InitPartial /\ [][PartialNext]_vars

\* Every step this client can take is eventually taken.
InitClients == TicketInit /\ PureIdle /\ NotionIdle /\ FeedbackIdle /\ SettingsIdle
  /\ AppIdle
SpecClients == InitClients /\ [][ClientsNext]_vars /\ WF_vars(ClientSteps)

InitOverlap == TicketInit /\ PureIdle /\ NotionIdle /\ FeedbackIdle /\ SettingsIdle
  /\ AppIdle
SpecOverlap == InitOverlap /\ [][OverlapNext]_vars

\* The mount effect runs, the backend answers every request and every answered
\* call resumes: as long as one of these steps is possible, one is taken.
InitLoading == TicketInit /\ PureIdle /\ NotionIdle /\ FeedbackInit /\ SettingsIdle
  /\ db = {Row1, Row12} /\ fdb = {FeedbackRow1, FeedbackRow2}
  /\ AppIdle
SpecLoading == InitLoading /\ [][LoadingNext]_vars /\ WF_vars(LoadingSteps)

InitForms == TicketInit /\ PureIdle /\ NotionIdle /\ FeedbackInit /\ SettingsIdle
  /\ fdb = {FeedbackRow1, FeedbackRow2}
  /\ AppIdle
SpecForms == InitForms /\ [][FormsNext]_vars

InitGallery ==
  GalleryInit /\ PureIdle /\ NotionIdle /\ FeedbackGalleryInit /\ SettingsIdle
  /\ AppIdle
SpecGallery == InitGallery /\ [][GalleryNext]_vars

InitBulk == GalleryInit /\ PureIdle /\ NotionIdle /\ FeedbackIdle /\ SettingsIdle
  /\ AppIdle
SpecBulk == InitBulk /\ [][BulkNext]_vars

\* The Notion side before the service is used, in an environment without
\* Notion variables: the credentials are the stored keys.
NotionStored ==
  /\ pages = {}
  /\ nToken = (storage.notion_token # "")
  /\ nDatabaseId = (storage.notion_database_id # "")
  /\ nCalls = 0 /\ nNow = StartInstant /\ nReqs = {} /\ nLast = NoNotionCall

InitSettings == SettingsInit /\ TicketRestIdle /\ PureIdle /\ NotionStored /\ FeedbackIdle
  /\ AppIdle
SpecSettings == InitSettings /\ [][SettingsNext]_vars

----------------------------------------------------------------------------
(* Claims on the pure helpers (SpecPure) *)

HasBlankTag(tags) == \E i \in 1..Len(tags) : IsBlank(tags[i])

\* C4 as stated: every tag list decodes to itself after encoding.
C4_RoundTripAnyTags ==
  (cOrigin = "encoded" /\ cDone) => cDecoded = cTags

\* C4 (amended): a tag list with no blank (empty or white-space-only) tag
\* decodes to itself after encoding, same tags in the same order; the empty
\* list is stored as null, and null decodes to the empty list.
C4_RoundTrip ==
  /\ (cOrigin = "encoded" /\ cDone /\ ~HasBlankTag(cTags)) => cDecoded = cTags
  /\ (cOrigin = "encoded" /\ cTags = <<>>) => cStored = Null
  /\ (cOrigin = "encoded" /\ cTags # <<>>) => cStored # Null
  /\ (cStored = Null /\ cDone) => cDecoded = <<>>

C4_Witness ==
  /\ cOrigin = "encoded" /\ cDone
  /\ Len(cTags) = 2 /\ cTags[1] = <<Quote>> /\ cTags[2] = <<"a">>
  /\ cDecoded = cTags

\* The elements of a legacy array that are strings / non-blank strings.
StringsOf(items) ==
  LET keep == SelectSeq(items, LAMBDA it : it.k = "str")
  IN  [i \in 1..Len(keep) |-> keep[i].v]
NonBlankStringsOf(items) ==
  LET keep == SelectSeq(items, LAMBDA it : it.k = "str" /\ ~IsBlank(it.v))
  IN  [i \in 1..Len(keep) |-> keep[i].v]

\* C5 as stated: a legacy array decodes to its string elements, and every
\* legacy non-blank text s decodes to [trim(s)].
C5_LegacyAnyText ==
  /\ (cOrigin = "legacy" /\ cDone /\ cStored.k = "arr")
       => cDecoded = StringsOf(cStored.v)
  /\ (cOrigin = "legacy" /\ cDone /\ cStored.k = "str" /\ ~IsBlank(cStored.v))
       => cDecoded = <<Trim(cStored.v)>>

\* A list of strings, as a call that returns gives and one that throws
\* does not.
IsStringList(list) ==
  /\ DOMAIN list = 1..Len(list)
  /\ \A i \in 1..Len(list) : DOMAIN list[i] = 1..Len(list[i])

\* What a legacy text decodes to, by what JSON.parse makes of it.
LegacyTextDecoded(text) ==
  LET parsed == JsonParse(text)
  IN  IF ~parsed.ok
      THEN IF IsBlank(text) THEN <<>> ELSE <<Trim(text)>>
      ELSE IF parsed.val.k = "arr" THEN NonBlankStringsOf(parsed.val.v)
      ELSE IF parsed.val.k = "str" /\ ~IsBlank(parsed.val.v)
           THEN <<Trim(parsed.val.v)>>
      ELSE <<>>

\* C5 (amended): decoding a stored value never throws: it gives a list of
\* strings.  An array decodes to its elements that are strings and not
\* blank after trimming.  A text that JSON-parses to an array decodes
\* likewise, one that parses to a non-blank string decodes to that string
\* trimmed, and a non-blank text that is not valid JSON decodes to
\* [trim(s)]; every other value decodes to [].
C5_Legacy ==
  (cOrigin = "legacy" /\ cDone) =>
    /\ IsStringList(cDecoded)
    /\ cStored.k = "arr" => cDecoded = NonBlankStringsOf(cStored.v)
    /\ cStored.k = "str" => cDecoded = LegacyTextDecoded(cStored.v)
    /\ cStored.k \notin {"arr", "str"} => cDecoded = <<>>

C5_Witness ==
  /\ cOrigin = "legacy" /\ cDone
  /\ cStored = Str(<<" ", "d", "e", "f", "i", " ">>)
  /\ cDecoded = <<<<"d", "e", "f", "i">>>>

\* h <- (31 * h + charCode(c)) mod 2^32, as a signed 32-bit integer.
RECURSIVE Fold31(_, _)
Fold31(h, chars) ==
  IF chars = <<>> THEN h
  ELSE Fold31(ToInt32(WAdd(WMul(Wide(h), 31), Wide(CharCode(Head(chars))))),
              Tail(chars))

\* |h| as a wide number.
AbsWide(h) == IF h >= 0 THEN Wide(h) ELSE WSub(Wide(0), Wide(h))

\* x <= 2^31 for a wide x >= 0.
AtMostTwo31(x) == x.hi >= 0 /\ (x.hi < Two15 \/ (x.hi = Two15 /\ x.lo = 0))

\* C9: for a non-numeric identifier the ticket id is |h|, h the signed 32-bit
\* fold of 31 * h + charCode over the trimmed identifier; it lies in 0..2^31,
\* and createTicket and updateTicket compute the same id.
C9_HashSurrogate ==
  (hDone /\ ~isNumeric(Trim(hIn))) =>
     /\ ~hCreate.nan
     /\ hCreate.id = AbsWide(Fold31(0, Trim(hIn)))
     /\ AtMostTwo31(hCreate.id)
     /\ hUpdate = hCreate

C9_Witness ==
  /\ hDone /\ ~isNumeric(Trim(hIn))
  /\ hIn = <<"z", "z", "z", "z", "z", "z">>
  /\ Fold31(0, Trim(hIn)) < 0
  /\ hCreate.id = AbsWide(Fold31(0, Trim(hIn)))

----------------------------------------------------------------------------
(* Claims on the ticket side (Spec) *)

Elements(list) == {list[i] : i \in 1..Len(list)}

ResolvedIffDated(status, date) == (status = "Resolved") <=> (date # NoDate)

\* C1: every ticket write path writes a resolution date exactly when it writes
\* the status 'Resolved' (the row createTicket inserts, updateTicket's and
\* bulkUpdateTicketStatus's update data, the Notion properties built from the
\* same form data); so every row of the table and every ticket of the local
\* list has a resolution date if and only if its status is 'Resolved'.
C1_ResolvedDate ==
  /\ \A row \in db : ResolvedIffDated(row.status, row.date_of_resolved)
  /\ \A i \in 1..Len(tickets) :
       ResolvedIffDated(tickets[i].status, tickets[i].date_resolved)
  /\ \A r \in reqs :
       /\ r.op = "create" =>
            ResolvedIffDated(CreateRow(r.data, r.at).status,
                             CreateRow(r.data, r.at).date_of_resolved)
       /\ r.op = "update" =>
            ResolvedIffDated(UpdateData(r.data, r.at).status,
                             UpdateData(r.data, r.at).date_of_resolved)
       /\ r.op = "bulkStatus" =>
            ResolvedIffDated(BulkUpdateData(r.status, r.at).status,
                             BulkUpdateData(r.status, r.at).date_of_resolved)
       /\ r.op \in {"create", "update"} =>
            \/ ticketToNotionProperties(r.data, Undef, r.at) = Thrown
            \/ ResolvedIffDated(ticketToNotionProperties(r.data, Undef, r.at).Status,
                                ticketToNotionProperties(r.data, Undef, r.at).DateResolved)

\* Ticket 12, resolved in the table the client found, was updated to
\* 'Not Started': its row and its local ticket have lost the resolution date.
C1_Witness ==
  /\ last.op = "update" /\ last.ok /\ last.id = <<"1", "2">>
  /\ last.data.status = "Not Started"
  /\ \E row \in db :
       row.ticket_id = 12 /\ row.status = "Not Started" /\ row.date_of_resolved = NoDate
  /\ \E i \in 1..Len(tickets) :
       /\ tickets[i].id = <<"1", "2">>
       /\ tickets[i].status = "Not Started" /\ tickets[i].date_resolved = NoDate

\* The criteria of a search other than the text query, on a row of the table.
SatisfiesCriteria(row, filters) ==
  /\ filters.status # <<>> => row.status \in Elements(filters.status)
  /\ filters.severity # <<>> => row.severity \in Elements(filters.severity)
  /\ filters.product_tags # <<>> =>
       Elements(filters.product_tags) \cap Elements(safeJsonParse(row.product)) # {}
  /\ filters.category_tags # <<>> =>
       Elements(filters.category_tags) \cap Elements(safeJsonParse(row.category)) # {}
  /\ filters.start # NoDate =>
       row.created_at # NoDate /\ DayOf(row.created_at) >= filters.start
  /\ filters.end # NoDate =>
       row.created_at # NoDate /\ DayOf(row.created_at) <= filters.end

LocalIdSet == {tickets[i].id : i \in 1..Len(tickets)}
IdsOf(rows) == {NumberToString(row.ticket_id) : row \in rows}
HasQuery(filters) == filters.search_query # Undef /\ filters.search_query.v # <<>>

\* A search has succeeded with no other request in flight, and nothing was
\* requested since.
SearchDone == last.op = "search" /\ last.ok /\ last.alone /\ reqs = {}

\* C6: after a successful searchTickets(filters) with no other request in
\* flight, the local list holds, once each, exactly the tickets of the table
\* that satisfy all of: status in filters.status, severity in
\* filters.severity, some product tag in filters.product_tags, some category
\* tag in filters.category_tags, creation day >= start and <= end, both
\* days included; an absent or empty criterion restricts nothing.  With a
\* text query the list is a part of that set.
C6_SearchCriteria ==
  SearchDone =>
    /\ Cardinality(LocalIdSet) = Len(tickets)
    /\ LocalIdSet \subseteq IdsOf({row \in db : SatisfiesCriteria(row, last.filters)})
    /\ ~HasQuery(last.filters) =>
         LocalIdSet = IdsOf({row \in db : SatisfiesCriteria(row, last.filters)})

\* q occurs in text, case-insensitively.
ContainsText(text, q) == StringIncludes(ToLowerCase(text), ToLowerCase(q))

\* q occurs in one of the four fields of the row.
RowHasText(row, q) ==
  \/ ContainsText(TextOr(row.issue_description, <<>>), q)
  \/ ContainsText(TextOr(row.core_team_comment, <<>>), q)
  \/ ContainsText(TextOr(row.wallet_address_safe_email, <<>>), q)
  \/ ContainsText(NumberToString(row.ticket_id), q)

\* C8 as stated: after a successful searchTickets with a text query q, the
\* local list holds exactly the tickets, among those passing the other
\* criteria, in which q occurs case-insensitively in the issue description,
\* the core team comments, the contact info or the ticket ID.
C8_TextQuery ==
  (SearchDone /\ HasQuery(last.filters)) =>
    LocalIdSet = IdsOf({row \in db : /\ SatisfiesCriteria(row, last.filters)
                                     /\ RowHasText(row, last.filters.search_query.v)})

\* C10 as stated: every request of a ticket operation goes to the backend
\* that the data source selected when the operation was called names.
C10_BackendFollowsToggle == \A r \in reqs : r.backend = r.source

----------------------------------------------------------------------------
(* Claims on the feedback side (SpecFeedback) *)

\* A createFeedback or updateFeedback has succeeded, nothing was requested
\* since, and the record it wrote is in the table.
FeedbackWritten ==
  /\ fLast.ok /\ fLast.op \in {"create", "update"} /\ fReqs = {}
  /\ \E row \in fdb : row.id = fLast.row

PersistedFeedback == CHOOSE row \in fdb : row.id = fLast.row

\* C2 as stated: after a successful createFeedback or updateFeedback whose
\* data has shipped = true, the persisted record has a shipping date: the
\* supplied one, or else the date of the call.
C2_ShippedHasDate ==
  (FeedbackWritten /\ fLast.data.shipped = "true") =>
    /\ PersistedFeedback.shipping_date # NoDate
    /\ PersistedFeedback.shipping_date =
         IF fLast.data.shipping_date > NoDate THEN fLast.data.shipping_date
         ELSE DayOf(fLast.at)

\* C3: after a successful createFeedback or updateFeedback whose data has
\* shipped = false or no shipped, the persisted shipping date is null,
\* whatever shipping date the data holds.
C3_UnshippedHasNoDate ==
  (FeedbackWritten /\ fLast.data.shipped \in {"false", "undefined"}) =>
    PersistedFeedback.shipping_date = NoDate

\* Record 1, shipped on day 1, was updated with data that has no shipped and
\* the shipping date 1: its shipping date is now null.
C3_Witness ==
  /\ FeedbackWritten /\ fLast.op = "update" /\ fLast.row = 1
  /\ fLast.data.shipped = "undefined" /\ fLast.data.shipping_date = 1
  /\ PersistedFeedback.shipping_date = NoDate
  /\ PersistedFeedback.shipped = "true"

----------------------------------------------------------------------------
(* Claims on the Notion adapter (SpecNotion) *)

\* q occurs in one of the four text fields of the page's ticket.
PageHasText(page, q) ==
  \/ ContainsText(notionPageToTicket(page, nNow).issue_description, q)
  \/ ContainsText(notionPageToTicket(page, nNow).core_team_comments, q)
  \/ ContainsText(notionPageToTicket(page, nNow).contact_info, q)
  \/ ContainsText(notionPageToTicket(page, nNow).ticket_id, q)

\* Every criterion of a search on a page, status and severity as membership
\* in the selected values.
PageSatisfies(page, filters) ==
  /\ ~page.archived
  /\ filters.status # <<>> => page.properties.Status \in Elements(filters.status)
  /\ filters.severity # <<>> => page.properties.Severity \in Elements(filters.severity)
  /\ filters.start # NoDate => page.properties.DateCreated >= MidnightOf(filters.start)
  /\ filters.end # NoDate => page.properties.DateCreated <= MidnightOf(filters.end)
  /\ HasQuery(filters) => PageHasText(page, filters.search_query.v)
  /\ filters.product_tags # <<>> =>
       Elements(filters.product_tags) \cap Elements(page.properties.ProductTags) # {}
  /\ filters.category_tags # <<>> =>
       Elements(filters.category_tags) \cap Elements(page.properties.CategoryTags) # {}

\* C7 as stated: a successful searchTickets of the Notion adapter, made with
\* no other call at its await, returns the tickets whose status is any of the
\* selected statuses and whose severity is any of the selected severities,
\* and that pass the other criteria.
C7_StatusSetMembership ==
  (nLast.op = "search" /\ nLast.ok /\ nLast.alone /\ nReqs = {}) =>
    {nLast.result[i].id : i \in 1..Len(nLast.result)}
      = {page.id : page \in {pg \in pages : PageSatisfies(pg, nLast.filters)}}

----------------------------------------------------------------------------
(* Claims on the settings provider (SpecSettings) *)

\* The provider's effects have run for the state it now holds.
SettingsSettled ==
  sMounted /\ sPersisted = dataSource /\ sConfigSaved = notionConfig

\* The data source the user last asked for: the latest setDataSource(s) since
\* the mount, else the value the mount found in storage, else the default.
SelectedSource ==
  IF sChosen # "" THEN sChosen
  ELSE IF sSaved # "" THEN sSaved ELSE DefaultDataSource

\* C11: the data-source selection is persisted and survives a reload: once the
\* provider's effects have settled, the stored 'data_source' and the data
\* source in memory both equal the latest setDataSource(s), or, when there was
\* none since the mount, the value s that the mount found in storage.
C11_SelectionPersisted ==
  SettingsSettled =>
    /\ dataSource = SelectedSource
    /\ storage.data_source = SelectedSource

\* The provider was mounted on a stored 'notion', nothing was chosen since,
\* and its effects have settled: the default was not kept.
C11_Witness ==
  /\ SettingsSettled
  /\ sSaved = "notion" /\ sChosen = ""
  /\ dataSource = "notion" /\ storage.data_source = "notion"

----------------------------------------------------------------------------
(* Further claims on the ticket side (Spec) *)

\* C12 as stated: the ticket primary key is auto-generated, so createTicket
\* called without a ticket_id (missing or blank) succeeds and its ticket is
\* inserted under a generated ticket_id.
C12_GeneratedTicketId ==
  (last.op = "create" /\ TicketIdMissing(last.data)) =>
    /\ last.ok
    /\ error = ""
    /\ \E row \in db : row.created_at = last.at

Mutations == {"create", "update", "delete", "bulkDelete", "bulkStatus"}

\* The local ticket has the field values of the persisted row, as a fetch
\* would show them.
SameFields(ticket, row) ==
  LET shown == TransformTicket(row, 0)
  IN  /\ ticket.status = shown.status
      /\ ticket.issue_description = shown.issue_description
      /\ ticket.core_team_comments = shown.core_team_comments
      /\ ticket.contact_info = shown.contact_info
      /\ ticket.product_tags = shown.product_tags
      /\ ticket.category_tags = shown.category_tags
      /\ ticket.severity = shown.severity
      /\ ticket.date_resolved = shown.date_resolved

\* Every local ticket has a persisted row with its id and the same values.
LocalMatchesRows ==
  \A i \in 1..Len(tickets) :
    \E row \in db : /\ NumberToString(row.ticket_id) = tickets[i].id
                    /\ SameFields(tickets[i], row)

\* C13 as stated: all changes are synced with the backend.  With no
\* overlapping requests, after every successful createTicket, updateTicket,
\* deleteTicket, bulkDeleteTickets or bulkUpdateTicketStatus each local ticket
\* has the field values of the persisted row with its id, and when no filter
\* is active the local ids are exactly the persisted ids.
C13_SyncedWithBackend ==
  (last.ok /\ last.op \in Mutations /\ reqs = {}) =>
    /\ LocalMatchesRows
    /\ ~isSearchMode => LocalIdSet = IdsOf(db)

----------------------------------------------------------------------------
(* Claims on partial updates (SpecPartial) *)

\* The rows the tables held before the one update made on them.
InitialRow(key) == CHOOSE row \in {Row1, Row12, Row97} : row.ticket_id = key
InitialFeedbackRow(key) ==
  CHOOSE row \in {FeedbackRow1, FeedbackRow2} : row.id = key

\* Every column whose property is absent from the updates object has in new
\* the value it has in old.
AbsentTicketFieldsKept(updates, old, new) ==
  /\ updates.ticket_id = Undef => new.ticket_id = old.ticket_id
  /\ updates.status = UndefEnum => new.status = old.status
  /\ updates.issue_description = Undef => new.issue_description = old.issue_description
  /\ updates.core_team_comments = Undef => new.core_team_comment = old.core_team_comment
  /\ updates.contact_info = Undef =>
       new.wallet_address_safe_email = old.wallet_address_safe_email
  /\ updates.product_tags = Undef => new.product = old.product
  /\ updates.category_tags = Undef => new.category = old.category
  /\ updates.severity = UndefEnum => new.severity = old.severity

AbsentFeedbackFieldsKept(updates, old, new) ==
  /\ updates.ticket_id = Undef => new.ticket_id = old.ticket_id
  /\ updates.platform = UndefEnum => new.platform = old.platform
  /\ updates.product = Undef => new.product = old.product
  /\ updates.description = Undef => new.description = old.description
  /\ updates.core_team_acknowledgement = "undefined" =>
       new.core_team_acknowledgement = old.core_team_acknowledgement
  /\ updates.shipped = "undefined" => new.shipped = old.shipped
  /\ updates.shipping_date = UndefDate => new.shipping_date = old.shipping_date

\* C14 as stated: an update writes only the fields the caller supplies.  After
\* a successful updateTicket or updateFeedback with a partial updates object,
\* every persisted field absent from the updates object has the value it had
\* before the call.
C14_AbsentFieldsKept ==
  /\ (last.op = "update" /\ last.ok) =>
       \A row \in db :
         row.ticket_id = parseInt(last.id).n =>
           AbsentTicketFieldsKept(last.data, InitialRow(row.ticket_id), row)
  /\ (fLast.op = "update" /\ fLast.ok) =>
       \A row \in fdb :
         row.id = fLast.row =>
           AbsentFeedbackFieldsKept(fLast.data, InitialFeedbackRow(row.id), row)

----------------------------------------------------------------------------
(* Claims on failures (SpecHooks) *)

\* The step handles the response of a failed request of the ticket hook.
HandlesFailure == \E r \in reqs : r.stage = "error" /\ r \notin reqs'
\* The step handles the response of a request that succeeded.
HandlesSuccess == \E r \in reqs : r.stage = "ok" /\ r \notin reqs'

FeedbackHandlesFailure == \E r \in fReqs : r.stage = "error" /\ r \notin fReqs'
FeedbackHandlesSuccess == \E r \in fReqs : r.stage = "ok" /\ r \notin fReqs'

\* C15: when the backend call of an operation of useTickets or of
\* useFeedback fails, the hook's error becomes a non-null message and the
\* local list is left as it was before the call: the step that handles the
\* failure sets the error and keeps the list, and no step from the call to
\* that one changes the list, which only the handling of a successful
\* response does.
C15_FailureKeepsList ==
  [][/\ HandlesFailure => (error' # "" /\ tickets' = tickets)
     /\ tickets' # tickets => HandlesSuccess
     /\ FeedbackHandlesFailure => (fError' # "" /\ feedback' = feedback)
     /\ feedback' # feedback => FeedbackHandlesSuccess]_vars

\* The mount effect's fetch of the tickets has failed and, later, a bulk
\* deletion of loaded feedback: each hook has its error set, the list of
\* tickets is still empty and the feedback items are still in their list.
C15_Witness ==
  /\ last.op = "fetch" /\ ~last.ok
  /\ error = "Failed to fetch tickets" /\ tickets = <<>> /\ reqs = {}
  /\ fLast.op = "bulkDelete" /\ ~fLast.ok
  /\ fError = "Failed to delete feedback"
  /\ Len(feedback) > 1 /\ fReqs = {}

----------------------------------------------------------------------------
(* Claims on other clients (SpecClients) *)

\* The local list shows the table as it is now.
LocalShowsTable == \E rows \in OrderDesc(db) : tickets = TransformAll(rows, 0)

\* C16 as stated: synchronisation across clients is automatic.  A ticket change
\* committed by another client eventually appears in this client's local list
\* without any user action in this client.
C16_EventuallySynced == (~LocalShowsTable) ~> LocalShowsTable

----------------------------------------------------------------------------
(* Claims on overlapping calls (SpecOverlap, SpecLoading) *)

\* The call of request r has resumed in this step.
Resumed(r) == \A q \in reqs' : q.at # r.at
FeedbackResumed(r) == \A q \in fReqs' : q.at # r.at

\* While a fetch or search that met no other is in flight, loading is true.
SoloLoading == \A r \in reqs : (r.op \in Loads /\ r.solo) => loading
FeedbackSoloLoading == \A r \in fReqs : (r.op \in Loads /\ r.solo) => fLoading
\* When its call resumes, after a success or a failure, loading is false.
SoloResumes ==
  \A r \in reqs : (r.op \in Loads /\ r.solo /\ Resumed(r)) => ~loading'
FeedbackSoloResumes ==
  \A r \in fReqs : (r.op \in Loads /\ r.solo /\ FeedbackResumed(r)) => ~fLoading'

\* C17: for a fetch or search call, of useTickets or of useFeedback, that
\* overlaps no other fetch or search of the hook, loading is true from the
\* call until its response is handled and false once it is handled, whether
\* the request succeeded or failed, and whatever mutating calls are in
\* flight with it; with the backend answering, loading always returns to
\* false.
C17_LoadingOfSoloCall ==
  /\ [](SoloLoading /\ FeedbackSoloLoading)
  /\ [][SoloResumes /\ FeedbackSoloResumes]_vars
  /\ loading ~> ~loading
  /\ fLoading ~> ~fLoading
\* A search of the feedback that met no other fetch or search is in flight
\* with loading true while a deletion is in flight as well, after the mount
\* effect's fetch of the tickets, which met no other, has failed and left
\* loading false.
C17_Witness ==
  /\ last.op = "fetch" /\ last.solo /\ ~last.ok /\ ~loading
  /\ \E r \in fReqs : r.op = "search" /\ r.solo /\ r.stage = "ok" /\ fLoading
  /\ \E r \in fReqs : r.op = "delete"

\* C18: loading is true whenever a fetch or a search of the hook is in flight,
\* also when several of them overlap.
C18_LoadingWhileAnyInFlight ==
  (\E r \in reqs : r.op \in Loads) => loading

\* The user has only searched and cleared the search, and cleared it last.
ClearedLast ==
  /\ userActions # <<>>
  /\ userActions[Len(userActions)] = "clear"
  /\ \A i \in 1..Len(userActions) : userActions[i] \in {"search", "clear"}
\* Every request made so far has completed, none of them with an error.
AllSucceeded == mounted /\ reqs = {} /\ ~anyFailed

\* C19: once the user has cleared the search and every request in flight has
\* completed successfully, the local list is the full table, in whatever order
\* the responses of an earlier search and of the clearing fetch were handled.
C19_ClearShowsFullTable == (ClearedLast /\ AllSucceeded) => LocalShowsTable

\* The deletion handled last was confirmed, and the step handles the response
\* of a fetch or a search.
DeletionConfirmed == last.op = "delete" /\ last.ok
LoadHandled == \E r \in reqs : r.op \in Loads /\ r.stage = "ok" /\ Resumed(r)
DeletedStaysGone ==
  (DeletionConfirmed /\ LoadHandled) => last.id \notin LocalIdSet'

\* C20: once every request made so far has completed without error, every
\* ticket of the local list exists in the table, however the responses of
\* fetches, searches, creates, updates and deletes interleave, and the
\* response of a fetch or a search never brings back a ticket whose deletion
\* was confirmed.
C20_LocalTicketsExist ==
  /\ [](AllSucceeded => LocalIdSet \subseteq IdsOf(db))
  /\ [][DeletedStaysGone]_vars

----------------------------------------------------------------------------
(* Claims on mutating calls (Spec, SpecHooks) *)

\* The step is the user's call of a mutating handler.
MutatingCall ==
  /\ userActions' # userActions
  /\ userActions'[Len(userActions')] \in Mutations
\* The step puts exactly one more request in flight.
SendsOne == Cardinality(reqs') = Cardinality(reqs) + 1
\* The request of a mutating call is in flight before and after the step.
MutationPending ==
  \E r \in reqs : r.op \in Mutations /\ \E q \in reqs' : q.at = r.at
\* No step but a call or the mount effect sends a request: nothing is sent
\* again.
NothingResent ==
  (userActions' = userActions /\ mounted' = mounted)
    => Cardinality(reqs') <= Cardinality(reqs)

\* The same of useFeedback, every call of which counts in fCalls.
FeedbackMutatingCall ==
  fCalls' = fCalls + 1 /\ \E r \in fReqs' \ fReqs : r.op \in Mutations
FeedbackCallSendsOne ==
  (fCalls' = fCalls + 1) => Cardinality(fReqs') = Cardinality(fReqs) + 1
FeedbackMutationPending ==
  \E r \in fReqs : r.op \in Mutations /\ \E q \in fReqs' : q.at = r.at
FeedbackNothingResent ==
  (fCalls' = fCalls /\ fMounted' = fMounted)
    => Cardinality(fReqs') <= Cardinality(fReqs)

\* C21: a mutating call of useTickets or of useFeedback sends exactly one
\* request and leaves the local list alone, the list stays as it is while
\* the request is in flight, and no request is sent again.
C21_ExactlyOneRequest ==
  [][/\ MutatingCall => (SendsOne /\ tickets' = tickets)
     /\ MutationPending => tickets' = tickets
     /\ NothingResent
     /\ FeedbackCallSendsOne
     /\ FeedbackMutatingCall => feedback' = feedback
     /\ FeedbackMutationPending => feedback' = feedback
     /\ FeedbackNothingResent]_vars

----------------------------------------------------------------------------
(* Claims on the forms (SpecForms) *)

\* The step ends a submit of the ticket form whose save has failed.
FailedSaveReturns ==
  /\ isSubmitting
  /\ \E r \in reqs : r.op \in {"create", "update"} /\ r.stage = "error" /\ Resumed(r)

\* C22: a submit closes the form only when the save succeeded; when the
\* create or update call fails the form stays open with the data the user
\* entered.
C22_FailedSaveKeepsForm ==
  [][FailedSaveReturns =>
       /\ showTicketForm' = showTicketForm /\ editingTicket' = editingTicket
       /\ formData' = formData]_vars

\* The step calls the ticket form's save callback.
TicketSaveCalled ==
  /\ userActions' # userActions
  /\ userActions'[Len(userActions')] \in {"create", "update"}
\* The step calls the feedback form's save callback, which sends r.
FeedbackSaveCalled(r) ==
  /\ fCalls' = fCalls + 1
  /\ r \in fReqs' /\ r.n = fCalls /\ r.op \in {"create", "update"}

NonBlank(value) == value # Undef /\ Trim(value.v) # <<>>

\* What the claim requires of the data a form saves.
TicketSaveAllowed(data) ==
  /\ NonBlank(data.ticket_id)
  /\ NonBlank(data.issue_description)
  /\ NonBlank(data.contact_info)
FeedbackSaveAllowed(data) ==
  /\ data.platform # UndefEnum
  /\ data.created_at # NoDate
  /\ data.platform = "Intercom" => NonBlank(data.ticket_id)

\* A feedback form with a platform other than Intercom, a date and an empty
\* ticket ID is waiting for a submit.
EmptyIdOffered ==
  /\ FeedbackFormRendered /\ ~feedbackSubmitting
  /\ feedbackFormData.platform \notin {"Intercom", UndefEnum}
  /\ feedbackFormData.created_at # NoDate
  /\ feedbackFormData.ticket_id = Str(<<>>)

\* The step is the table's answer to a save of data with an empty ticket ID,
\* and the row it has stored.
StoredOfEmptyId(row) ==
  \E r \in fReqs' :
    /\ r \notin fReqs /\ r.stage = "ok" /\ r.op \in {"create", "update"}
    /\ r.data.ticket_id = Str(<<>>)
    /\ row.id = r.rows[1].id

\* C23: a form calls its save callback only when validation passes: the
\* ticket form only with ticket ID, issue description and contact info all
\* non-blank; the feedback form, creating or editing, only with the platform
\* and the date set and, on Intercom, a non-blank ticket ID.  On every other
\* platform an empty ticket ID is accepted: the submit calls the save
\* callback, and the row the table stores for it has a null ticket_id.
C23_SaveOnlyWhenValid ==
  /\ [][/\ TicketSaveCalled => TicketSaveAllowed(formData)
        /\ \A r \in fReqs' :
             FeedbackSaveCalled(r) =>
               /\ FeedbackFormRendered /\ r.data = feedbackFormData
               /\ FeedbackSaveAllowed(r.data)
        /\ \A row \in fdb' : StoredOfEmptyId(row) => row.ticket_id = NullInt]_vars
  /\ [](EmptyIdOffered => ENABLED FeedbackFormSubmit)
\* A Discord item with an empty ticket ID, saved by the form, is in the table
\* with a null ticket_id, and a later submit of the feedback form was
\* refused.
C23_Witness ==
  /\ \E row \in fdb :
       row.id >= 3 /\ row.platform = "Discord" /\ row.ticket_id = NullInt
  /\ fLast.op = "create" /\ fLast.ok /\ fLast.data.ticket_id = Str(<<>>)
  /\ feedbackFormErrors # {}

----------------------------------------------------------------------------
(* Further claims on the ticket identifier (SpecPure) *)

\* The text is digits with at most one decimal point among them.
IsDecimalText(s) ==
  /\ \A i \in 1..Len(s) : s[i] \in Digits \cup {"."}
  /\ \E i \in 1..Len(s) : s[i] \in Digits
  /\ Cardinality({i \in 1..Len(s) : s[i] = "."}) <= 1

PointOf(s) ==
  IF \E i \in 1..Len(s) : s[i] = "." THEN CHOOSE i \in 1..Len(s) : s[i] = "."
  ELSE Len(s) + 1

RECURSIVE DropTrailingZeros(_)
DropTrailingZeros(s) ==
  IF s # <<>> /\ s[Len(s)] = "0" THEN DropTrailingZeros(SubSeq(s, 1, Len(s) - 1))
  ELSE s

\* The number a decimal text denotes: its integer part and the digits of its
\* fraction, none for an integer.
Denoted(s) ==
  [int |-> DigitsValue(s, 1, PointOf(s) - 1, 10),
   frac |-> DropTrailingZeros(SubSeq(s, PointOf(s) + 1, Len(s)))]

\* The number a ticket_id is.
IntegerId(id) == [int |-> WideToInt(id), frac |-> <<>>]

\* C24 as stated: for a numeric identifier the stored ticket_id is exactly
\* the number the identifier denotes, in createTicket and in updateTicket, so
\* identifiers denoting different numbers get different ticket_ids.
C24_NumericIdUsedAsIs ==
  (hDone /\ isNumeric(Trim(hIn)) /\ IsDecimalText(Trim(hIn))) =>
     /\ ~hCreate.nan /\ IntegerId(hCreate.id) = Denoted(Trim(hIn))
     /\ ~hUpdate.nan /\ IntegerId(hUpdate.id) = Denoted(Trim(hIn))

----------------------------------------------------------------------------
(* The pages of the gallery *)

\* The page is one the list has: 1 <= p <= max(1, ceil(n / 12)).
PageInRange ==
  /\ 1 <= currentPage
  /\ currentPage <= (IF totalPages > 1 THEN totalPages ELSE 1)
FeedbackPageInRange ==
  /\ 1 <= feedbackPage
  /\ feedbackPage <= (IF feedbackTotalPages > 1 THEN feedbackTotalPages ELSE 1)

\* The effects have run for what is rendered.
GallerySettled == GalleryRendered /\ effectDeps = <<Deps>>
FeedbackGallerySettled == FeedbackGalleryRendered /\ feedbackEffectDeps = <<FeedbackDeps>>

\* A dependency of the two effects that reset the page is not what it was
\* when they last ran: they run next.
PageResetDue ==
  \/ effectDeps = <<>>
  \/ effectDeps[1].sortBy # sortBy
  \/ effectDeps[1].length # Len(tickets)
FeedbackPageResetDue ==
  \/ feedbackEffectDeps = <<>>
  \/ feedbackEffectDeps[1].sortBy # feedbackSortBy
  \/ feedbackEffectDeps[1].length # Len(feedback)

\* What the rendered gallery is given changes in a step.
ListOrSortChanges ==
  GalleryRendered /\ GalleryRendered' /\ (tickets' # tickets \/ sortBy' # sortBy)
FeedbackListOrSortChanges ==
  FeedbackGalleryRendered /\ FeedbackGalleryRendered'
    /\ (feedback' # feedback \/ feedbackSortBy' # feedbackSortBy)

\* The effects run while a page reset is due: the page is 1 afterwards.
EffectsResetPage ==
  GalleryRendered /\ PageResetDue /\ effectDeps' # effectDeps
    => currentPage' = 1 /\ ~PageResetDue'
FeedbackEffectsResetPage ==
  FeedbackGalleryRendered /\ FeedbackPageResetDue
      /\ feedbackEffectDeps' # feedbackEffectDeps
    => feedbackPage' = 1 /\ ~FeedbackPageResetDue'

\* The bound of C25 in both galleries.
PagesInRange ==
  /\ GallerySettled => PageInRange
  /\ FeedbackGallerySettled => FeedbackPageInRange

\* C25: in the ticket gallery and in the feedback gallery, once the effects
\* have settled the page p satisfies 1 <= p <= max(1, ceil(n / 12)) for the
\* list size n, and whenever the sort order or the list changes the gallery
\* returns to page 1: the page is 1 already or the effects that reset it
\* run next.
C25_PageReturnsOnListChange ==
  /\ []PagesInRange
  /\ [][ListOrSortChanges => currentPage' = 1 \/ PageResetDue']_vars
  /\ [][FeedbackListOrSortChanges => feedbackPage' = 1 \/ FeedbackPageResetDue']_vars
  /\ [][EffectsResetPage]_vars
  /\ [][FeedbackEffectsResetPage]_vars

----------------------------------------------------------------------------
(* The selection of the gallery *)

\* The requests a step sends for a bulk delete or a bulk status update.
BulkRequestsSent ==
  {r \in reqs' : r.op \in {"bulkDelete", "bulkStatus"} /\ r.stage = "sent" /\ r.at = now}

\* The id is that of a ticket of the list the gallery is given.
Listed(id) == \E i \in 1..Len(tickets) : tickets[i].id = id

\* C26: every id the gallery passes to bulk delete or to bulk status update is
\* that of a ticket in the list the gallery shows when it passes it.
C26_BulkIdsAreListed ==
  [][GalleryRendered =>
       \A r \in BulkRequestsSent : \A i \in 1..Len(r.ids) : Listed(r.ids[i])]_vars

----------------------------------------------------------------------------
(* The confirmation of a bulk delete *)

\* The step calls the App's bulk delete callback.
BulkDeleteInvoked == userActions' = Append(userActions, "bulkDelete")

\* The request the callback sends is for the selection, which is not empty.
SendsSelection ==
  /\ selectedTickets # <<>>
  /\ \E r \in reqs' : r.op = "bulkDelete" /\ r.at = now /\ r.ids = selectedTickets

\* The step is the press of the dialog's Cancel button.
DeleteCancelled == bulkClicks # "Cancel" /\ bulkClicks' = "Cancel"

\* C27: the bulk delete callback is invoked only by the confirmation in the
\* dialog that 'Delete Selected' opened, and only with a selection that is not
\* empty; the dialog opens only through 'Delete Selected'; cancelling it
\* invokes no callback, sends nothing and leaves the selection as it is.
C27_DeleteOnlyOnceConfirmed ==
  /\ [][BulkDeleteInvoked =>
          /\ showDeleteConfirm /\ bulkClicks = "Delete Selected"
          /\ bulkClicks' = "Delete"
          /\ SendsSelection]_vars
  /\ [][~showDeleteConfirm /\ showDeleteConfirm' => bulkClicks' = "Delete Selected"]_vars
  /\ [][DeleteCancelled =>
          /\ showDeleteConfirm /\ ~showDeleteConfirm'
          /\ userActions' = userActions /\ reqs' = reqs
          /\ selectedTickets' = selectedTickets]_vars

\* The confirmed deletion of a whole page of twelve has just been sent.
C27_Witness ==
  /\ bulkClicks = "Delete" /\ ~showDeleteConfirm /\ selectedTickets = <<>>
  /\ \E r \in reqs : r.op = "bulkDelete" /\ r.stage = "sent" /\ Len(r.ids) = ITEMS_PER_PAGE

----------------------------------------------------------------------------
(* The list of the search panel *)

\* Both hooks are at rest and none of their requests has failed.
BothListsLoaded ==
  /\ GalleryRendered /\ reqs = {} /\ panelReqs = {} /\ ~loading /\ ~panelLoading
  /\ ~anyFailed /\ panelTickets # <<>>

\* C28: the ticket list SearchFilters exports and counts is the list the
\* gallery displays from the App's useTickets state, once both have loaded.
C28_PanelListIsGalleryList == BothListsLoaded => panelTickets = tickets

====
